---- MODULE Spec2Model ----
(***************************************************************************)
(* t-indicators: the windowed indicator engine (calculate_indicators) and  *)
(* its checkpointed, paginated driver (process_all_instruments).           *)
(*                                                                         *)
(* Arithmetic.  Prices and volumes are integers (a price is a number of    *)
(* minimal price steps); every f64 quotient of the code is kept as an      *)
(* exact fraction <<numerator, denominator>> with a positive denominator,  *)
(* and the volume z-score as the pair (value - mean, variance), i.e. the   *)
(* quotient by the square root is kept symbolic.  Rounding of f64 is not   *)
(* modelled.                                                               *)
(*                                                                         *)
(* Scale.  The periods of the code (window 50, page 1500, SMA 10 and 30,   *)
(* RSI 14, volume window 50, label horizon 15, sink sub-batch 50) are      *)
(* scaled down, keeping their order: fast < rsi < slow < window = volume   *)
(* window < page.                                                          *)
(***************************************************************************)
EXTENDS Integers, Sequences, FiniteSets, TLC

\* ----------------------------------------------------------------- scale
\* IndicatorCalculator::new: window_size = 50 (calculator.rs:20), scaled.
window_size == 3
\* IndicatorCalculator::new: batch_size = 1500 (calculator.rs:19), scaled.
batch_size == 4
\* calculate_sma(.., 10) (calculator.rs:315, 356), scaled.
MaFastPeriod == 1
\* calculate_sma(.., 30) (calculator.rs:316, 357), scaled.
MaSlowPeriod == 2
\* the 14 of rsi_gains / calculate_rsi (calculator.rs:302, 339, 515), scaled.
RsiPeriod == 2
\* VolumeStatistics::new(50) (calculator.rs:319), scaled.
VolumeWindow == 3
\* the 15 of the forward label (calculator.rs:386), scaled.
FutureOffset == 2
\* const BATCH_SIZE: usize = 50 of insert_indicators
\* (indicator_repository.rs:78), scaled.
SUB_BATCH_SIZE == 2
\* the 1_000_000_000 of convert_price (models/indicator.rs:84), scaled:
\* the model's prices count 1/NanoPerUnit of a unit.
NanoPerUnit == 2
\* the 2000 of get_candles_after_time (indicator_repository.rs:29), scaled.
HardLimit == 5
\* longest candle history given to the engine alone
MaxHist == 5
\* most candles the source holds for the first instrument, and for the others
MaxCandles == 5
MaxCandlesOther == 1
\* store failures and process stops in one behaviour
MaxFaults == 1
\* passes of process_all_instruments in one behaviour
MaxPasses == 2

\* (units, nano) closes and volumes of the candles the model draws
CloseSet == {<<1, 0>>, <<1, 1>>}
VolumeSet == {1, 3}
\* seconds between two candles (one-minute candles)
TimeStep == 60

Instruments == {"A", "B"}
\* the error texts a store call can fail with
Errors == {"TOO_MANY_PARTS", "MEMORY_LIMIT_EXCEEDED", "OTHER"}

VARIABLES
    \* the stores
    candles_tbl,          \* market_data.tinkoff_candles_1min: instrument -> rows by time
    status_tbl,           \* market_data.tinkoff_indicators_status: its rows, uid -> time
    indicators_tbl,       \* market_data.tinkoff_indicators_1min: the rows, in write order
    \* process_all_instruments
    pc,                   \* the round trip the pass is about to make ("idle": no pass)
    instrument_uids, index, last_processed_time, processed_count, total_processed,
    raw_candles, latest_time, window_data, indicators,
    \* insert_indicators
    batch_start, row_idx, successful_inserts,
    \* the run so far
    passes, pass_result, faults,
    \* history of the current run, kept for the properties
    start_checkpoint,     \* the checkpoint read at the start of the instrument's run
    page_no,              \* pages fetched so far in the instrument's run
    warmup_page,          \* whether a warm-up window was fetched for the current page
    insert_result,        \* what insert_indicators returned for the current page
    inserted,             \* the n of its Ok(n)
    attempts,             \* the writes it sent for the current page, in order
    written_upto,         \* instrument -> <<cursor, end>> of the last page whose rows
                          \* were all written
    visited,              \* instruments whose cycle began in the current pass
    failed_at,            \* the round trip whose failure ended the pass, or "none"
    truncated,            \* whether the pass has truncated the indicator table
    \* the engine called alone
    calc,
    \* the scheduler: configuration, clock, timer loop and its pass
    sched

stores == <<candles_tbl, status_tbl, indicators_tbl>>
locals == <<instrument_uids, index, last_processed_time, processed_count,
            total_processed, raw_candles, latest_time, window_data, indicators>>
sink == <<batch_start, row_idx, successful_inserts>>
history == <<start_checkpoint, page_no, warmup_page, insert_result, inserted, attempts,
             written_upto,
             visited, failed_at, truncated>>
vars == <<stores, pc, locals, sink, passes, pass_result, faults, history, calc, sched>>

\* ------------------------------------------------------------- fractions
RatAdd(a, b) == <<a[1] * b[2] + b[1] * a[2], a[2] * b[2]>>
RatSub(a, b) == <<a[1] * b[2] - b[1] * a[2], a[2] * b[2]>>
RatMul(a, b) == <<a[1] * b[1], a[2] * b[2]>>
\* a / b for b > 0
RatDiv(a, b) == <<a[1] * b[2], a[2] * b[1]>>
RatLt(a, b) == a[1] * b[2] < b[1] * a[2]
RatLe(a, b) == a[1] * b[2] <= b[1] * a[2]
RatEq(a, b) == a[1] * b[2] = b[1] * a[2]
RatInt(n) == <<n, 1>>

\* ------------------------------------------------------ sequence helpers
RECURSIVE SeqSum(_)
SeqSum(s) == IF s = <<>> THEN 0 ELSE Head(s) + SeqSum(Tail(s))

Reverse(s) == [i \in 1..Len(s) |-> s[Len(s) + 1 - i]]

\* the first n elements (SQL LIMIT n)
Take(s, n) == IF Len(s) <= n THEN s ELSE SubSeq(s, 1, n)

\* PushBounded that drops the value pushed when longer than cap (pop_back)
PushBoundedNewest(q, x, cap) ==
    LET r == Append(q, x) IN IF Len(r) > cap THEN SubSeq(r, 1, cap) ELSE r

\* VecDeque::push_back followed by pop_front when longer than cap
PushBounded(q, x, cap) ==
    LET r == Append(q, x) IN IF Len(r) > cap THEN Tail(r) ELSE r

\* ----------------------------------------------------------------- engine
\* calculate_sma that averages what is buffered when it is less than a period
calculate_sma_partial(prices, period) ==
    IF Len(prices) = 0 \/ period = 0
    THEN RatInt(0)
    ELSE IF Len(prices) < period
         THEN <<SeqSum(prices), Len(prices)>>
         ELSE <<SeqSum(SubSeq(prices, Len(prices) - period + 1, Len(prices))), period>>

calculate_sma(prices, period) ==
    IF Len(prices) = 0 \/ period = 0 \/ Len(prices) < period
    THEN RatInt(0)
    ELSE <<SeqSum(SubSeq(prices, Len(prices) - period + 1, Len(prices))), period>>

\* calculate_rsi that is neutral, not 100, when there is no loss
calculate_rsi_neutral(gains, losses) ==
    IF Len(gains) < RsiPeriod \/ Len(losses) < RsiPeriod
    THEN RatInt(50)
    ELSE LET avg_gain == <<SeqSum(gains), RsiPeriod>>
             avg_loss == <<SeqSum(losses), RsiPeriod>>
         IN  IF avg_loss[1] = 0
             THEN RatInt(50)
             ELSE LET rs == RatDiv(avg_gain, avg_loss)
                  IN  RatSub(RatInt(100), RatDiv(RatInt(100), RatAdd(RatInt(1), rs)))

calculate_rsi(gains, losses) ==
    IF Len(gains) < RsiPeriod \/ Len(losses) < RsiPeriod
    THEN RatInt(50)
    ELSE LET avg_gain == <<SeqSum(gains), RsiPeriod>>
             avg_loss == <<SeqSum(losses), RsiPeriod>>
         IN  IF avg_loss[1] = 0
             THEN RatInt(100)
             ELSE LET rs == RatDiv(avg_gain, avg_loss)
                  IN  RatSub(RatInt(100), RatDiv(RatInt(100), RatAdd(RatInt(1), rs)))

determine_ma_cross(prev_ma_fast, prev_ma_slow, curr_ma_fast, curr_ma_slow) ==
    IF RatLe(prev_ma_fast, prev_ma_slow) /\ RatLt(curr_ma_slow, curr_ma_fast)
    THEN 1
    ELSE IF RatLe(prev_ma_slow, prev_ma_fast) /\ RatLt(curr_ma_fast, curr_ma_slow)
         THEN -1
         ELSE 0

\* calculate_future_price_change with the thresholds included (>= for >)
calculate_future_price_change_inclusive(current_price, future_price) ==
    IF current_price = 0
    THEN <<RatInt(0), 0>>
    ELSE LET price_change ==
                 RatMul(RatSub(<<future_price, current_price>>, RatInt(1)), RatInt(100))
         IN  <<price_change,
               IF RatLe(<<1, 5>>, price_change) THEN 1
               ELSE IF RatLe(price_change, <<-1, 5>>) THEN -1 ELSE 0>>

\* (price_change_15m, signal_15m); the thresholds are +-0.2 = +-1/5
calculate_future_price_change(current_price, future_price) ==
    IF current_price = 0
    THEN <<RatInt(0), 0>>
    ELSE LET price_change ==
                 RatMul(RatSub(<<future_price, current_price>>, RatInt(1)), RatInt(100))
         IN  <<price_change,
               IF RatLt(<<1, 5>>, price_change) THEN 1
               ELSE IF RatLt(price_change, <<-1, 5>>) THEN -1 ELSE 0>>

\* VolumeStatistics
VolumeStatisticsNew(cap) ==
    [volumes |-> <<>>, window_size |-> cap, sum |-> 0, sum_sq |-> 0]

VolumeAdd(vs, volume) ==
    LET pushed == [vs EXCEPT !.volumes = Append(@, volume),
                             !.sum     = @ + volume,
                             !.sum_sq  = @ + volume * volume]
    IN  IF Len(pushed.volumes) > vs.window_size
        THEN LET old_value == Head(pushed.volumes)
             IN  [pushed EXCEPT !.volumes = Tail(@),
                                !.sum     = @ - old_value,
                                !.sum_sq  = @ - old_value * old_value]
        ELSE pushed

VolumeMean(vs) ==
    IF Len(vs.volumes) = 0 THEN RatInt(0) ELSE <<vs.sum, Len(vs.volumes)>>

\* the variance under the square root of stddev; 0 stands for stddev = 0.0
VolumeVariance(vs) ==
    IF Len(vs.volumes) <= 1
    THEN RatInt(0)
    ELSE LET n == Len(vs.volumes)
             variance == RatDiv(RatSub(RatInt(vs.sum_sq), <<vs.sum * vs.sum, n>>),
                                RatInt(n - 1))
         IN  IF RatLe(variance, RatInt(0)) THEN RatInt(0) ELSE variance

\* normalize: the z-score dev / sqrt(var), kept as the pair; 0.0 is (0, 1)
VolumeNormalize(vs, value) ==
    LET mean == VolumeMean(vs)
        var  == VolumeVariance(vs)
    IN  IF var[1] = 0
        THEN [dev |-> RatInt(0), var |-> RatInt(1)]
        ELSE [dev |-> RatSub(RatInt(value), mean), var |-> var]

\* volume_norm >= 2.0, for the mutant of ZScoreAboveTwo
ZScoreAtLeastTwo(z) ==
    /\ z.dev[1] > 0
    /\ RatLe(RatMul(RatInt(4), z.var), RatMul(z.dev, z.dev))

\* volume_norm > 2.0: dev > 0 and dev^2 > 4 * var
ZScoreAboveTwo(z) ==
    /\ z.dev[1] > 0
    /\ RatLt(RatMul(RatInt(4), z.var), RatMul(z.dev, z.dev))

\* volume_anomaly of a z-score
VolumeAnomaly(z) == IF ZScoreAboveTwo(z) THEN 1 ELSE 0

\* chrono: hour of day and ISO day of week (1 = Monday) of an epoch second
HourOfDay(time) == (time \div 3600) % 24
DayOfWeek(time) == (((time \div 86400) + 3) % 7) + 1

\* one push of a price delta into the RSI buffers (calculator.rs:291-306)
RsiPush(st, candles, i) ==
    IF i > 1
    THEN LET price_change == candles[i].close_price - candles[i - 1].close_price
             gain == IF price_change >= 0 THEN price_change ELSE 0
             loss == IF price_change >= 0 THEN 0 ELSE -price_change
         IN  [st EXCEPT !.rsi_gains  = PushBounded(@, gain, RsiPeriod),
                        !.rsi_losses = PushBounded(@, loss, RsiPeriod)]
    ELSE st

\* the pre-fill loop over the warm-up candles 1..window_end_idx (0-based
\* 0..window_end_idx-1): RSI buffers and price window
RECURSIVE PrefillPrices(_, _, _, _)
PrefillPrices(st, candles, i, window_end_idx) ==
    IF i > window_end_idx
    THEN st
    ELSE LET a == RsiPush(st, candles, i)
             b == [a EXCEPT !.prices_window =
                                PushBounded(@, candles[i].close_price, window_size)]
         IN  PrefillPrices(b, candles, i + 1, window_end_idx)

\* the volume pre-fill loop
RECURSIVE PrefillVolumes(_, _, _, _)
PrefillVolumes(vs, candles, i, window_end_idx) ==
    IF i > window_end_idx
    THEN vs
    ELSE PrefillVolumes(VolumeAdd(vs, candles[i].volume), candles, i + 1, window_end_idx)

\* the body of the main loop for the candle at (1-based) index i
EmitStep(st, candles, i) ==
    LET candle == candles[i]
        a  == RsiPush(st, candles, i)
        pw == PushBounded(a.prices_window, candle.close_price, window_size)
        vs == VolumeAdd(a.volume_stats, candle.volume)
        ma_10 == calculate_sma(pw, MaFastPeriod)
        ma_30 == calculate_sma(pw, MaSlowPeriod)
        rsi_14 == calculate_rsi(a.rsi_gains, a.rsi_losses)
        volume_norm == VolumeNormalize(vs, candle.volume)
        future == IF i + FutureOffset <= Len(candles)
                  THEN calculate_future_price_change(candle.close_price,
                                                     candles[i + FutureOffset].close_price)
                  ELSE <<RatInt(0), 0>>
        indicator ==
            [instrument_uid |-> candle.instrument_uid,
             time           |-> candle.time,
             open_price     |-> candle.open_price,
             high_price     |-> candle.high_price,
             low_price      |-> candle.low_price,
             close_price    |-> candle.close_price,
             volume         |-> candle.volume,
             rsi_14         |-> rsi_14,
             ma_10          |-> ma_10,
             ma_30          |-> ma_30,
             volume_norm    |-> volume_norm,
             ma_diff        |-> RatSub(ma_10, ma_30),
             ma_cross       |-> determine_ma_cross(a.prev_ma_10, a.prev_ma_30, ma_10, ma_30),
             rsi_zone       |-> IF RatLt(rsi_14, RatInt(30)) THEN 1
                                ELSE IF RatLt(RatInt(70), rsi_14) THEN -1 ELSE 0,
             volume_anomaly |-> VolumeAnomaly(volume_norm),
             hour_of_day    |-> HourOfDay(candle.time),
             day_of_week    |-> DayOfWeek(candle.time),
             price_change_15m |-> future[1],
             signal_15m     |-> future[2]]
    IN  [a EXCEPT !.prices_window = pw,
                  !.volume_stats  = vs,
                  !.prev_ma_10    = ma_10,
                  !.prev_ma_30    = ma_30,
                  !.result        = Append(@, indicator)]

RECURSIVE MainLoop(_, _, _)
MainLoop(st, candles, i) ==
    IF i > Len(candles) THEN st ELSE MainLoop(EmitStep(st, candles, i), candles, i + 1)

\* SeededState that leaves the previous pair of averages at 0.0
SeededStateZeroPrev(candles, window_end_idx) ==
    LET empty == [prices_window |-> <<>>, rsi_gains |-> <<>>, rsi_losses |-> <<>>,
                  volume_stats |-> VolumeStatisticsNew(VolumeWindow),
                  prev_ma_10 |-> RatInt(0), prev_ma_30 |-> RatInt(0), result |-> <<>>]
        p == PrefillPrices(empty, candles, 1, window_end_idx)
    IN  [p EXCEPT !.volume_stats = PrefillVolumes(p.volume_stats, candles, 1,
                                                  window_end_idx)]

\* the buffers a call starts from, were they kept by the calculator between
\* calls: those the call before it ended with
RollingRetained == calc.retained

\* the buffers a call starts from: result, prices_window, rsi_gains,
\* rsi_losses and volume_stats are built empty inside the call
RollingNew ==
    [prices_window |-> <<>>, rsi_gains |-> <<>>, rsi_losses |-> <<>>,
     volume_stats |-> VolumeStatisticsNew(VolumeWindow),
     prev_ma_10 |-> RatInt(0), prev_ma_30 |-> RatInt(0), result |-> <<>>]

\* the rolling state after the warm-up candles, before the main loop
SeededState(candles, window_end_idx) ==
    LET p == PrefillPrices(RollingNew, candles, 1, window_end_idx)
    IN  [p EXCEPT !.prev_ma_10   = calculate_sma(p.prices_window, MaFastPeriod),
                  !.prev_ma_30   = calculate_sma(p.prices_window, MaSlowPeriod),
                  !.volume_stats = PrefillVolumes(p.volume_stats, candles, 1,
                                                  window_end_idx)]

\* the buffers after the first j candle updates of a call: those of the
\* pre-fill loops up to the warm start index, those of the main loop after it
BuffersAfter(candles, window_end_idx, j) ==
    LET st == IF j <= window_end_idx
              THEN SeededState(candles, j)
              ELSE MainLoop(SeededState(candles, window_end_idx), SubSeq(candles, 1, j),
                            window_end_idx + 1)
    IN  [prices_window |-> st.prices_window, rsi_gains |-> st.rsi_gains,
         rsi_losses |-> st.rsi_losses, volume_stats |-> st.volume_stats]

\* FirstEmitted that starts the main loop at the first candle of the input
FirstEmittedZero(window_end_idx) == 1

\* the (1-based) index the main loop starts at: for i in window_end_idx..len
FirstEmitted(window_end_idx) == window_end_idx + 1

\* calculate_indicators with the length test off by one (< for <=)
calculate_indicators_short(candles, window_end_idx) ==
    IF Len(candles) < window_size
    THEN <<>>
    ELSE MainLoop(SeededState(candles, window_end_idx), candles,
                  FirstEmitted(window_end_idx)).result

calculate_indicators(candles, window_end_idx) ==
    IF Len(candles) <= window_size
    THEN <<>>
    ELSE MainLoop(SeededState(candles, window_end_idx), candles,
                  FirstEmitted(window_end_idx)).result

\* ------------------------------------------------------------ the stores
\* the i-th stored candle of an instrument (a DbCandleRaw row)
RawCandle(uid, i, close, volume) ==
    [instrument_uid |-> uid, time |-> i * TimeStep,
     open_units |-> close[1], open_nano |-> close[2],
     high_units |-> close[1] + 1, high_nano |-> close[2],
     low_units |-> 0, low_nano |-> close[2],
     close_units |-> close[1], close_nano |-> close[2],
     volume |-> volume]

convert_price(units, nano) == units * NanoPerUnit + nano

\* impl From<DbCandleRaw> for DbCandleConverted
Converted(raw) ==
    [instrument_uid |-> raw.instrument_uid, time |-> raw.time,
     open_price  |-> convert_price(raw.open_units, raw.open_nano),
     high_price  |-> convert_price(raw.high_units, raw.high_nano),
     low_price   |-> convert_price(raw.low_units, raw.low_nano),
     close_price |-> convert_price(raw.close_units, raw.close_nano),
     volume |-> raw.volume]

ConvertAll(rows) == [i \in 1..Len(rows) |-> Converted(rows[i])]

\* RowsAfter with the lower bound included (>= for >)
RowsFrom(rows, t) == SelectSeq(rows, LAMBDA r: r.time >= t)

\* WHERE time > t ORDER BY time ASC over rows kept by ascending time
RowsAfter(rows, t) == SelectSeq(rows, LAMBDA r: r.time > t)

\* the hard limit of get_candles_after_time: min(limit, 2000)
safe_limit(limit) == IF limit < HardLimit THEN limit ELSE HardLimit

get_candles_after_time(rows, time, limit) == Take(RowsAfter(rows, time), safe_limit(limit))

\* fetch_historical_window without its final reverse(): newest candle first
fetch_historical_window_unreversed(rows, current_time) ==
    LET desc == Reverse(SelectSeq(rows, LAMBDA r: r.time <= current_time))
    IN  ConvertAll(Take(desc, window_size))

\* WHERE time <= t ORDER BY time DESC LIMIT window_size, converted, reversed
fetch_historical_window(rows, current_time) ==
    LET desc == Reverse(SelectSeq(rows, LAMBDA r: r.time <= current_time))
    IN  Reverse(ConvertAll(Take(desc, window_size)))

\* SELECT last_processed_time ... .unwrap_or(0)
get_last_processed_time(uid) == IF uid \in DOMAIN status_tbl THEN status_tbl[uid] ELSE 0

\* INSERT ... ON CONFLICT (instrument_uid) DO UPDATE
Upsert(tbl, uid, time) ==
    [u \in DOMAIN tbl \cup {uid} |-> IF u = uid THEN time ELSE tbl[u]]

\* is_status_table_empty that answers true whatever the table holds
is_status_table_empty_always == TRUE

\* SELECT COUNT(*) = 0
is_status_table_empty == DOMAIN status_tbl = {}

\* SELECT DISTINCT instrument_uid: the instruments with candles, in any order
UidOrders ==
    LET with == {u \in Instruments : candles_tbl[u] # <<>>}
    IN  {s \in UNION {[1..n -> with] : n \in 0..Cardinality(Instruments)} :
            /\ Len(s) = Cardinality(with)
            /\ \A i, j \in 1..Len(s) : i # j => s[i] # s[j]}

\* IsCapacityError that takes every error for a capacity error
IsCapacityErrorAny(e) == e \in Errors

\* IsCapacityError that knows TOO_MANY_PARTS only
IsCapacityErrorParts(e) == e = "TOO_MANY_PARTS"

\* the capacity test of insert_indicators on the error text
IsCapacityError(e) == e \in {"TOO_MANY_PARTS", "MEMORY_LIMIT_EXCEEDED"}

\* the text NULL, and the same in the shape of a z-score pair
NullText == <<"NULL">>
NullZScore == [dev |-> NullText, var |-> NullText]

\* format_float_safe: NaN and the infinities (a zero denominator) become NULL
format_float_safe(value) == IF value[2] = 0 THEN NullText ELSE value

\* format_float_safe of the z-score pair
format_zscore_safe(z) == IF z.dev[2] = 0 \/ z.var[2] = 0 THEN NullZScore ELSE z

\* the VALUES tuple sent for one indicator
SqlRow(ind) ==
    [ind EXCEPT !.rsi_14 = format_float_safe(@),
                !.ma_10 = format_float_safe(@),
                !.ma_30 = format_float_safe(@),
                !.volume_norm = format_zscore_safe(@),
                !.ma_diff = format_float_safe(@),
                !.price_change_15m = format_float_safe(@)]

SqlRows(batch) == [i \in 1..Len(batch) |-> SqlRow(batch[i])]

\* the VALUES tuple of the single-row retry of one indicator
RowSql(ind) ==
    [ind EXCEPT !.rsi_14 = format_float_safe(@),
                !.ma_10 = format_float_safe(@),
                !.ma_30 = format_float_safe(@),
                !.volume_norm = format_zscore_safe(@),
                !.ma_diff = format_float_safe(@),
                !.price_change_15m = format_float_safe(@)]

\* ------------------------------------------------ process_all_instruments
Uid == instrument_uids[index]

\* the close and volume of the i-th candle that arrives at the source
ArrivingClose(i) == IF i % 2 = 1 THEN <<1, 0>> ELSE <<1, 1>>
ArrivingVolume(i) == IF i % 3 = 0 THEN 3 ELSE 1

\* calculation_data: the warm-up window followed by the page
calculation_data(window, converted_candles) ==
    IF window # <<>> THEN window \o converted_candles ELSE converted_candles

window_end_idx_of(window) == IF window # <<>> THEN Len(window) ELSE 0

\* whether the first page of processed_count = 0 asks for a warm-up window
NeedsWindow(count, time) == count = 0 /\ time > 0

\* AfterCompute that never calls the sink
AfterComputeNoSink(inds) == "update"

\* the round trip after the engine call: the sink, unless there is no record
AfterCompute(inds) == IF inds # <<>> THEN "insert" ELSE "update"

\* latest_time taken from the first candle of the page
latest_time_of_first(page) == page[1].time

\* latest_time: the time of the last candle of the page
latest_time_of(page) == page[Len(page)].time

\* LastPage that also ends the loop after a full page (<= for <)
LastPageOrFull(batch_count) == batch_count <= batch_size

\* the loop ends after a page shorter than the page size
LastPage(batch_count) == batch_count < batch_size

\* one more store failure or stop, within the budget of the behaviour
Fault == faults < MaxFaults /\ faults' = faults + 1
NoFault == faults' = faults

CandleCap(u) == IF u = "A" THEN MaxCandles ELSE MaxCandlesOther

ClearPage ==
    /\ raw_candles' = <<>>
    /\ latest_time' = 0
    /\ window_data' = <<>>
    /\ indicators' = <<>>
    /\ warmup_page' = FALSE
    /\ insert_result' = "none"
    /\ inserted' = 0
    /\ attempts' = <<>>

ClearSink ==
    /\ batch_start' = 0
    /\ row_idx' = 0
    /\ successful_inserts' = 0

ClearRun ==
    /\ last_processed_time' = 0
    /\ processed_count' = 0
    /\ start_checkpoint' = 0
    /\ page_no' = 0

\* the pass returns: Ok(total_processed) or the error of a round trip (`?`)
EndPass(result, at) ==
    /\ pc' = "idle"
    /\ pass_result' = result
    /\ failed_at' = at
    /\ index' = 0
    /\ total_processed' = 0
    /\ ClearRun /\ ClearPage /\ ClearSink

\* the `?` of a failed round trip inside the pass
Abort(at) ==
    /\ Fault
    /\ EndPass("err", at)
    /\ UNCHANGED <<stores, instrument_uids, passes, written_upto, visited>>

\* the end of the per-instrument loop (break), then the next instrument
FinishInstrument ==
    IF index < Len(instrument_uids)
    THEN /\ index' = index + 1
         /\ visited' = visited \cup {instrument_uids[index + 1]}
         /\ pc' = "read_ckpt"
         /\ total_processed' = total_processed + processed_count
         /\ ClearRun /\ ClearPage /\ ClearSink
         /\ UNCHANGED <<pass_result, failed_at>>
    ELSE /\ EndPass("ok", "none")
         /\ UNCHANGED visited

\* get_all_instrument_uids, the first round trip of a pass
GetAllInstrumentUids ==
    /\ pc = "idle"
    /\ passes < MaxPasses
    /\ passes' = passes + 1
    /\ visited' = {}
    /\ \/ /\ Fault
          /\ instrument_uids' = <<>>
          /\ EndPass("err", "get_uids")
       \/ \E order \in UidOrders :
             /\ NoFault
             /\ instrument_uids' = order
             /\ IF order = <<>>
                THEN EndPass("ok", "none")
                ELSE /\ pc' = "status_empty"
                     /\ pass_result' = "running"
                     /\ failed_at' = "none"
                     /\ UNCHANGED <<index, total_processed, last_processed_time,
                                    processed_count, start_checkpoint, page_no,
                                    raw_candles, latest_time, window_data, indicators, warmup_page,
                                    insert_result, inserted, attempts, sink>>
    /\ truncated' = FALSE
    /\ UNCHANGED <<stores, written_upto, calc, sched>>

IsStatusTableEmpty ==
    /\ pc = "status_empty"
    /\ \/ Abort("status_empty")
       \/ /\ NoFault
          /\ pc' = IF is_status_table_empty THEN "truncate" ELSE "read_ckpt"
          /\ index' = IF is_status_table_empty THEN 0 ELSE 1
          /\ visited' = IF is_status_table_empty THEN {} ELSE {instrument_uids[1]}
          /\ UNCHANGED <<stores, instrument_uids, last_processed_time, processed_count,
                         total_processed, raw_candles, latest_time, window_data, indicators, sink,
                         passes, pass_result, start_checkpoint, page_no, warmup_page,
                         insert_result, inserted, attempts, written_upto, failed_at>>
    /\ UNCHANGED <<truncated, calc, sched>>

truncate_indicators_table ==
    /\ pc = "truncate"
    /\ \/ Abort("truncate") /\ UNCHANGED truncated
       \/ /\ NoFault
          /\ truncated' = TRUE
          /\ indicators_tbl' = <<>>
          /\ written_upto' = [u \in Instruments |-> <<0, 0>>]
          /\ pc' = "read_ckpt"
          /\ index' = 1
          /\ visited' = {instrument_uids[1]}
          /\ UNCHANGED <<candles_tbl, status_tbl, instrument_uids, last_processed_time,
                         processed_count, total_processed, raw_candles, latest_time,
                         window_data, indicators, sink, passes, pass_result, start_checkpoint,
                         page_no, warmup_page, insert_result, inserted, attempts,
                         failed_at>>
    /\ UNCHANGED <<calc, sched>>

\* status_repo.get_last_processed_time(..).await?.unwrap_or(0)
GetLastProcessedTime ==
    /\ pc = "read_ckpt"
    /\ \/ Abort("read_ckpt")
       \/ /\ NoFault
          /\ last_processed_time' = get_last_processed_time(Uid)
          /\ start_checkpoint' = get_last_processed_time(Uid)
          /\ processed_count' = 0
          /\ page_no' = 0
          /\ pc' = "fetch"
          /\ UNCHANGED <<stores, instrument_uids, index, total_processed, raw_candles,
                         latest_time, window_data, indicators, sink, passes, pass_result,
                         warmup_page, insert_result, inserted, attempts, written_upto,
                         visited, failed_at>>
    /\ UNCHANGED <<truncated, calc, sched>>

\* the engine call of one page and the branch on its result (lines 143-162)
Compute(page, window) ==
    LET inds == calculate_indicators(calculation_data(window, ConvertAll(page)),
                                     window_end_idx_of(window))
    IN  /\ window_data' = window
        /\ indicators' = inds
        /\ pc' = AfterCompute(inds)

\* indicator_repo.get_candles_after_time(..).await?, up to the warm-up fetch
GetCandlesAfterTime ==
    /\ pc = "fetch"
    /\ \/ Abort("fetch")
       \/ LET page == get_candles_after_time(candles_tbl[Uid], last_processed_time,
                                             batch_size)
          IN  IF page = <<>>
              THEN /\ NoFault
                   /\ FinishInstrument
                   /\ UNCHANGED <<stores, instrument_uids, passes, written_upto>>
              ELSE /\ NoFault
                   /\ raw_candles' = page
                   /\ latest_time' = latest_time_of(page)
                   /\ page_no' = page_no + 1
                   /\ warmup_page' = FALSE
                   /\ insert_result' = "none"
                   /\ inserted' = 0
                   /\ attempts' = <<>>
                   /\ IF NeedsWindow(processed_count, last_processed_time)
                      THEN pc' = "warmup" /\ indicators' = <<>> /\ window_data' = <<>>
                      ELSE Compute(page, <<>>)
                   /\ UNCHANGED <<stores, instrument_uids, index, last_processed_time,
                                  processed_count, total_processed, sink, passes,
                                  pass_result, start_checkpoint, written_upto, visited,
                                  failed_at>>
    /\ UNCHANGED <<truncated, calc, sched>>

\* self.fetch_historical_window(..).await?, then the engine call
FetchHistoricalWindow ==
    /\ pc = "warmup"
    /\ \/ Abort("warmup")
       \/ /\ NoFault
          /\ warmup_page' = TRUE
          /\ Compute(raw_candles,
                     fetch_historical_window(candles_tbl[Uid], last_processed_time))
          /\ UNCHANGED <<stores, instrument_uids, index, last_processed_time,
                         processed_count, total_processed, raw_candles, latest_time, sink,
                         passes, pass_result, start_checkpoint, page_no, insert_result,
                         inserted, attempts,
                         written_upto, visited, failed_at>>
    /\ UNCHANGED <<truncated, calc, sched>>

\* insert_indicators returns to the loop: Ok(count) or Err
InsertReturns(ok, count) ==
    /\ pc' = "update"
    /\ insert_result' = IF ok THEN "ok" ELSE "err"
    /\ inserted' = IF ok THEN count ELSE 0
    /\ processed_count' = IF ok THEN processed_count + count ELSE processed_count
    /\ written_upto' = IF ok /\ count = Len(indicators)
                       THEN [written_upto EXCEPT ![Uid] = <<last_processed_time, latest_time>>]
                       ELSE written_upto
    /\ ClearSink

\* NextSubBatch that returns Ok after the first sub-batch
NextSubBatchReturn(count) == InsertReturns(TRUE, count)

\* NextSubBatch that steps one row too far (step_by(BATCH_SIZE + 1))
NextSubBatchSkip(count) ==
    IF batch_start + SUB_BATCH_SIZE >= Len(indicators)
    THEN InsertReturns(TRUE, count)
    ELSE /\ batch_start' = batch_start + SUB_BATCH_SIZE + 1
         /\ row_idx' = 0
         /\ successful_inserts' = count
         /\ UNCHANGED <<pc, insert_result, inserted, processed_count, written_upto>>

\* the end of one sub-batch: the next one, or Ok(successful_inserts)
NextSubBatch(count) ==
    IF batch_start + SUB_BATCH_SIZE >= Len(indicators)
    THEN InsertReturns(TRUE, count)
    ELSE /\ batch_start' = batch_start + SUB_BATCH_SIZE
         /\ row_idx' = 0
         /\ successful_inserts' = count
         /\ UNCHANGED <<pc, insert_result, inserted, processed_count, written_upto>>

batch_end == IF batch_start + SUB_BATCH_SIZE < Len(indicators)
             THEN batch_start + SUB_BATCH_SIZE ELSE Len(indicators)

\* one write sent to the destination: rows from..to of the input, as one
\* multi-row statement or as a single-row retry, and its outcome
Attempt(multi, from, to, result) ==
    [multi |-> multi, from |-> from, to |-> to, result |-> result]

\* successful_inserts counting a single-row write whatever its outcome
CountRowAlways(count, wrote) == count + 1

\* successful_inserts after a single-row write: += 1 in the Ok arm only
CountRow(count, wrote) == IF wrote THEN count + 1 ELSE count

\* the early return Ok(0) for no input, else the multi-row write of the
\* sub-batch at batch_start
InsertBatch ==
    /\ pc = "insert" /\ row_idx = 0
    /\ LET batch == SubSeq(indicators, batch_start + 1, batch_end)
       IN  \/ /\ indicators = <<>>
              /\ NoFault
              /\ InsertReturns(TRUE, 0)
              /\ UNCHANGED <<indicators_tbl, attempts>>
           \/ /\ indicators # <<>>
              /\ NoFault
              /\ indicators_tbl' = indicators_tbl \o SqlRows(batch)
              /\ attempts' = Append(attempts, Attempt(TRUE, batch_start + 1, batch_end, "ok"))
              /\ NextSubBatch(successful_inserts + Len(batch))
           \/ \E e \in Errors :
                 /\ indicators # <<>>
                 /\ Fault
                 /\ attempts' = Append(attempts, Attempt(TRUE, batch_start + 1, batch_end, e))
                 /\ IF IsCapacityError(e)
                    THEN /\ row_idx' = batch_start + 1
                         /\ UNCHANGED <<indicators_tbl, pc, insert_result, inserted,
                                        processed_count,
                                        written_upto, batch_start, successful_inserts>>
                    ELSE /\ InsertReturns(FALSE, 0)
                         /\ UNCHANGED indicators_tbl
    /\ UNCHANGED <<candles_tbl, status_tbl, instrument_uids, index, last_processed_time,
                   total_processed, raw_candles, latest_time, window_data, indicators, passes,
                   pass_result, start_checkpoint, page_no, warmup_page, visited,
                   failed_at, truncated, calc, sched>>

\* RowErrorReturns that propagates a failure outside the capacity class
RowErrorPropagates(row_err) == ~IsCapacityError(row_err)

\* whether the Err arm of a single-row write returns from the call: it logs,
\* sleeps after MEMORY_LIMIT_EXCEEDED, and goes on with the next row
RowErrorReturns(row_err) == FALSE

\* the single-row retry of row row_idx after a capacity error; the retries
\* fail within the store failure that began with the multi-row write
InsertRow ==
    /\ pc = "insert" /\ row_idx > 0
    /\ \E res \in {"ok"} \cup Errors :
         LET wrote == res = "ok"
             count == CountRow(successful_inserts, wrote)
         IN  /\ NoFault
             /\ attempts' = Append(attempts, Attempt(FALSE, row_idx, row_idx, res))
             /\ indicators_tbl' = IF wrote
                                  THEN Append(indicators_tbl, RowSql(indicators[row_idx]))
                                  ELSE indicators_tbl
             /\ IF ~wrote /\ RowErrorReturns(res)
                THEN InsertReturns(FALSE, 0)
                ELSE IF row_idx < batch_end
                THEN /\ row_idx' = row_idx + 1
                     /\ successful_inserts' = count
                     /\ UNCHANGED <<pc, insert_result, inserted, processed_count,
                                    written_upto,
                                    batch_start>>
                ELSE NextSubBatch(count)
    /\ UNCHANGED <<candles_tbl, status_tbl, instrument_uids, index, last_processed_time,
                   total_processed, raw_candles, latest_time, window_data, indicators, passes,
                   pass_result, start_checkpoint, page_no, warmup_page, visited,
                   failed_at, truncated, calc, sched>>

\* status_repo.update_last_processed_time, whose error is only logged,
\* then the cursor and the end of the iteration (lines 176-189)
UpdateLastProcessedTime ==
    /\ pc = "update"
    /\ \E ok \in BOOLEAN :
         /\ IF ok THEN NoFault ELSE Fault
         /\ status_tbl' = IF ok THEN Upsert(status_tbl, Uid, latest_time) ELSE status_tbl
    /\ IF LastPage(Len(raw_candles))
       THEN FinishInstrument
       ELSE /\ last_processed_time' = latest_time
            /\ pc' = "fetch"
            /\ ClearPage /\ ClearSink
            /\ UNCHANGED <<index, processed_count, total_processed, pass_result,
                           start_checkpoint, page_no, visited, failed_at>>
    /\ written_upto' = IF indicators = <<>>
                       THEN [written_upto EXCEPT ![Uid] = <<last_processed_time, latest_time>>]
                       ELSE written_upto
    /\ UNCHANGED <<candles_tbl, indicators_tbl, instrument_uids, passes, truncated,
                   calc, sched>>

\* the process stops during a pass and is started again later
Stop ==
    /\ pc # "idle"
    /\ Fault
    /\ EndPass("stopped", "none")
    /\ UNCHANGED <<stores, instrument_uids, passes, written_upto, visited, truncated,
                   calc, sched>>

\* a new candle of an instrument arrives at the source
NewCandle ==
    /\ \E u \in Instruments :
         /\ Len(candles_tbl[u]) < CandleCap(u)
         /\ candles_tbl' =
                [candles_tbl EXCEPT ![u] =
                    Append(@, RawCandle(u, Len(@) + 1, ArrivingClose(Len(@) + 1),
                                        ArrivingVolume(Len(@) + 1)))]
    /\ UNCHANGED <<status_tbl, indicators_tbl, pc, locals, sink, passes, pass_result,
                   faults, history, calc, sched>>

\* no pass has run: empty checkpoint and indicator tables
PassInit ==
    /\ status_tbl = <<>>
    /\ indicators_tbl = <<>>
    /\ pc = "idle"
    /\ instrument_uids = <<>>
    /\ index = 0
    /\ last_processed_time = 0
    /\ processed_count = 0
    /\ total_processed = 0
    /\ raw_candles = <<>>
    /\ latest_time = 0
    /\ window_data = <<>>
    /\ indicators = <<>>
    /\ batch_start = 0
    /\ row_idx = 0
    /\ successful_inserts = 0
    /\ passes = 0
    /\ pass_result = "none"
    /\ faults = 0
    /\ start_checkpoint = 0
    /\ page_no = 0
    /\ warmup_page = FALSE
    /\ insert_result = "none"
    /\ inserted = 0
    /\ attempts = <<>>
    /\ written_upto = [u \in Instruments |-> <<0, 0>>]
    /\ visited = {}
    /\ failed_at = "none"
    /\ truncated = FALSE

Init ==
    /\ candles_tbl = [u \in Instruments |-> <<>>]
    /\ PassInit
    /\ calc = [op |-> "none"]
    /\ sched = [loop |-> "none"]

Next ==
    \/ GetAllInstrumentUids
    \/ IsStatusTableEmpty
    \/ truncate_indicators_table
    \/ GetLastProcessedTime
    \/ GetCandlesAfterTime
    \/ FetchHistoricalWindow
    \/ InsertBatch
    \/ InsertRow
    \/ UpdateLastProcessedTime
    \/ Stop
    \/ NewCandle

Spec == Init /\ [][Next]_vars

\* the round trips of the per-instrument loop
LoopStep ==
    \/ GetCandlesAfterTime
    \/ FetchHistoricalWindow
    \/ InsertBatch
    \/ InsertRow
    \/ UpdateLastProcessedTime

\* the pass is inside the per-instrument loop of an instrument
InLoop == pc \in {"fetch", "warmup", "insert", "update"}

\* A pass that is not stopped makes its next round trip: weak fairness of
\* LoopStep. A loop step is possible exactly when the pass is inside the loop
\* (each round trip can return Ok), so ENABLED <<LoopStep>>_vars is InLoop and
\* WF_vars(LoopStep) is the formula below.
LoopFairness == []<>~InLoop \/ []<><<LoopStep>>_vars

SpecLive == Spec /\ LoopFairness

\* ------------------------------------------------- the engine called alone
\* every stored history of one instrument of at most n candles
RECURSIVE Histories(_)
Histories(n) ==
    IF n = 0
    THEN {<<>>}
    ELSE LET shorter == Histories(n - 1)
         IN  shorter \cup
             {Append(h, RawCandle("A", Len(h) + 1, c, v)) :
                h \in {x \in shorter : Len(x) = n - 1}, c \in CloseSet, v \in VolumeSet}

CalcInit ==
    /\ PassInit
    /\ \E h \in Histories(MaxHist) : candles_tbl = [u \in Instruments |->
                                                      IF u = "A" THEN h ELSE <<>>]
    /\ calc = [op |-> "none"]
    /\ sched = [loop |-> "none"]

\* calculate_indicators over the whole stored history, from any warm start index
CalcIndicators ==
    /\ calc.op = "none"
    /\ \E w \in 0..Len(candles_tbl["A"]) :
         calc' = [op |-> "calculate",
                  candles |-> ConvertAll(candles_tbl["A"]),
                  window_end_idx |-> w,
                  result |-> calculate_indicators(ConvertAll(candles_tbl["A"]), w),
                  buffers |-> IF Len(candles_tbl["A"]) <= window_size
                              THEN <<>>
                              ELSE [j \in 1..Len(candles_tbl["A"]) |->
                                      BuffersAfter(ConvertAll(candles_tbl["A"]), w, j)]]
    /\ UNCHANGED <<stores, pc, locals, sink, passes, pass_result, faults, history, sched>>

\* the history in one call, and the first page of a run resumed after the
\* split-th candle, as lines 128-159 build it
CalcResume ==
    /\ calc.op = "none"
    /\ \E split \in 1..(Len(candles_tbl["A"]) - 1) :
         LET rows == candles_tbl["A"]
             checkpoint == rows[split].time
             page == get_candles_after_time(rows, checkpoint, batch_size)
             window == fetch_historical_window(rows, checkpoint)
         IN  calc' = [op |-> "resume",
                      split |-> split,
                      window_data |-> window,
                      full |-> calculate_indicators(ConvertAll(rows), 0),
                      resumed |-> calculate_indicators(
                                      calculation_data(window, ConvertAll(page)),
                                      window_end_idx_of(window))]
    /\ UNCHANGED <<stores, pc, locals, sink, passes, pass_result, faults, history, sched>>

CalcNext == CalcIndicators \/ CalcResume

SpecCalc == CalcInit /\ [][CalcNext]_vars

\* ------------------------------------------------------------ properties
\* the indicator values of a record that depend on the rolling state
RollingValues(r) ==
    <<r.ma_10, r.ma_30, r.ma_diff, r.ma_cross, r.rsi_14, r.rsi_zone, r.volume_norm,
      r.volume_anomaly>>

\* C1  Resume consistency: the records of a run resumed after the split-th
\* candle (warm-up window of fetch_historical_window, warm start index = its
\* length) are one per candle after the split, and each carries the moving
\* averages, their difference, the crossover flag, RSI and zone, z-score and
\* anomaly flag that one call over the whole history gives for that candle.
C1_ResumeConsistency ==
    calc.op = "resume" =>
        /\ Len(calc.resumed) = IF calc.full = <<>> THEN 0 ELSE Len(calc.full) - calc.split
        /\ \A j \in 1..Len(calc.resumed) :
              /\ calc.resumed[j].time = calc.full[calc.split + j].time
              /\ RollingValues(calc.resumed[j]) = RollingValues(calc.full[calc.split + j])

\* a resumed run whose warm-up window is full and has dropped older candles,
\* and whose records carry a crossover and a non-neutral RSI
C1_Witness ==
    /\ calc.op = "resume"
    /\ calc.split > window_size
    /\ Len(calc.window_data) = window_size
    /\ calc.resumed # <<>>
    /\ calc.resumed[1].ma_cross # 0
    /\ calc.resumed[1].rsi_14 # <<50, 1>>

\* C10  calculate_indicators returns nothing for at most window_size candles,
\* and otherwise one record for each candle from the warm start index on, in
\* input order, with that candle's instrument, time and OHLCV.
C10_OneRecordPerCandle ==
    calc.op = "calculate" =>
        LET n == Len(calc.candles)
            w == calc.window_end_idx
        IN  IF n <= window_size
            THEN calc.result = <<>>
            ELSE /\ Len(calc.result) = n - w
                 /\ \A k \in 1..(n - w) :
                       LET r == calc.result[k]
                           c == calc.candles[w + k]
                       IN  /\ r.instrument_uid = c.instrument_uid
                           /\ r.time = c.time
                           /\ r.open_price = c.open_price
                           /\ r.high_price = c.high_price
                           /\ r.low_price = c.low_price
                           /\ r.close_price = c.close_price
                           /\ r.volume = c.volume

\* a call with warm-up candles that emitted more than one record
C10_Witness ==
    /\ calc.op = "calculate"
    /\ calc.window_end_idx > 0
    /\ Len(calc.result) > 1

\* the greatest candle time of a page
MaxTime(page) ==
    CHOOSE t \in {page[i].time : i \in 1..Len(page)} :
        \A i \in 1..Len(page) : page[i].time <= t

\* the step in which update_last_processed_time is called
UpdateCalled == pc = "update" /\ pc' # "update" /\ pass_result' # "stopped"
\* ... and returns Ok
UpdateWrote == UpdateCalled /\ faults' = faults

\* the rows of the destination that belong to an instrument
RowsOf(u) == SelectSeq(indicators_tbl, LAMBDA r: r.instrument_uid = u)

\* C2  After a non-empty page the loop calls update_last_processed_time with
\* the time of the page's last candle, which is the greatest of the page,
\* also when the engine emitted no record for the page (then the update is
\* the very next round trip); when the call succeeds the checkpoint holds it.
C2_CheckpointAdvances ==
    [][/\ UpdateCalled =>
            /\ raw_candles # <<>>
            /\ latest_time = raw_candles[Len(raw_candles)].time
            /\ latest_time = MaxTime(raw_candles)
       /\ UpdateWrote =>
            /\ Uid \in DOMAIN status_tbl'
            /\ status_tbl'[Uid] = MaxTime(raw_candles)
       /\ (pc \in {"fetch", "warmup"} /\ pc' \in {"insert", "update"}
              /\ indicators' = <<>>) => pc' = "update"
       /\ (raw_candles # <<>> /\ raw_candles' # raw_candles) =>
            \/ UpdateCalled
            \/ pass_result' = "stopped"
            \/ pass_result' = "err" /\ failed_at' = "warmup"
      ]_vars

\* the checkpoint of B stands at its last candle and B never got a record
C2_Witness ==
    /\ "B" \in DOMAIN status_tbl
    /\ candles_tbl["B"] # <<>>
    /\ status_tbl["B"] = MaxTime(candles_tbl["B"])
    /\ RowsOf("B") = <<>>
    /\ pc = "idle"

\* C4  The durable last_processed_time of an instrument never decreases, and
\* every value update_last_processed_time writes is strictly greater than the
\* cursor the page was fetched from, which is at least the durable value.
C4_CheckpointMonotonic ==
    [][/\ \A u \in DOMAIN status_tbl :
            u \in DOMAIN status_tbl' /\ status_tbl'[u] >= status_tbl[u]
       /\ UpdateWrote =>
            /\ status_tbl'[Uid] > last_processed_time
            /\ last_processed_time >= get_last_processed_time(Uid)
      ]_vars

\* the checkpoint of A was written for a second page
C4_Witness ==
    /\ "A" \in DOMAIN status_tbl
    /\ status_tbl["A"] > batch_size * TimeStep

\* C5  update_last_processed_time is called for a page only after the page
\* was fetched and, when the page has records, after insert_indicators has
\* returned for them; no other step changes the checkpoint table.
C5_UpdateAfterSubmit ==
    [][/\ UpdateCalled =>
            /\ raw_candles # <<>>
            /\ indicators = <<>> \/ insert_result # "none"
       /\ status_tbl' # status_tbl => UpdateCalled
      ]_vars

\* the checkpoint of A stands at the end of a page whose records were written
C5_Witness ==
    /\ "A" \in DOMAIN status_tbl
    /\ RowsOf("A") # <<>>
    /\ status_tbl["A"] = RowsOf("A")[Len(RowsOf("A"))].time

\* C3  (as claimed) Once insert_indicators has returned an error outside the
\* capacity class for a page, the checkpoint is not advanced to that page's
\* latest candle time.
C3_NoAdvanceAfterInsertError ==
    [][insert_result = "err" =>
          ~(Uid \in DOMAIN status_tbl' /\ status_tbl'[Uid] = latest_time
              /\ status_tbl' # status_tbl)
      ]_vars

\* C6  (as claimed) The durable checkpoint of an instrument is never ahead of
\* the last page whose rows were all written, and at most one page behind
\* it: it is the end of that page or the cursor that page was fetched from.
C6_CheckpointNotAhead ==
    \A u \in DOMAIN status_tbl :
        \/ status_tbl[u] = written_upto[u][2]
        \/ status_tbl[u] = written_upto[u][1]

\* C7  (as claimed) A pass in which the checkpoint read, the page fetch or
\* the warm-up fetch of one instrument failed has still begun the cycle of
\* every instrument of the enumeration by the time it ends.
C7_FailureEndsOneCycle ==
    (pc = "idle" /\ pass_result = "err"
        /\ failed_at \in {"read_ckpt", "fetch", "warmup"}) =>
        visited = {instrument_uids[i] : i \in 1..Len(instrument_uids)}

\* whether s is strictly ascending in time
Ascending(s) == \A i \in 1..(Len(s) - 1) : s[i].time < s[i + 1].time

\* C9  (as claimed) A warm-up window is fetched on the first page of a run
\* whose start checkpoint is non-zero and on no other page; it holds at most
\* window_size candles at or before the checkpoint in ascending time order,
\* and the warm start index is its length.
C9_WarmupOnFirstPageOnly ==
    /\ pc = "warmup" => page_no = 1 /\ start_checkpoint # 0
    /\ pc \in {"insert", "update"} =>
          /\ warmup_page <=> (page_no = 1 /\ start_checkpoint # 0)
          /\ Len(window_data) <= window_size
          /\ Ascending(window_data)
          /\ \A i \in 1..Len(window_data) : window_data[i].time <= last_processed_time
          /\ Len(indicators) \in {0, Len(raw_candles)}

\* a step that leaves the per-instrument loop by its break, not by an error
\* or a stop
LoopBreak == InLoop /\ ~InLoop' /\ pass_result' \notin {"err", "stopped"}

\* C8  With a finite candle source the per-instrument loop terminates; it is
\* left exactly at the first page that is empty or shorter than batch_size,
\* and a full page moves the fetch cursor strictly forward to the page's
\* latest candle time, also when update_last_processed_time failed.
C8_LoopTerminates ==
    /\ InLoop ~> ~InLoop
    /\ [][/\ LoopBreak =>
               \/ pc = "fetch" /\ RowsAfter(candles_tbl[Uid], last_processed_time) = <<>>
               \/ pc = "update" /\ raw_candles # <<>> /\ Len(raw_candles) < batch_size
          /\ (pc = "fetch" /\ InLoop' /\ pc' # "fetch") =>
               /\ raw_candles' # <<>>
               /\ Len(raw_candles') <= batch_size
               /\ last_processed_time' = last_processed_time
          /\ (UpdateCalled /\ Len(raw_candles) < batch_size) => ~InLoop'
          /\ (UpdateCalled /\ Len(raw_candles) = batch_size) =>
               /\ pc' = "fetch"
               /\ last_processed_time' = latest_time
               /\ last_processed_time' > last_processed_time
          /\ (InLoop /\ InLoop' /\ last_processed_time' # last_processed_time) =>
               UpdateCalled
         ]_vars

\* the loop stands at its second page, a short one, after a full first page
\* whose checkpoint write failed: the cursor advanced, the table has no row
C8_Witness ==
    /\ pc = "update"
    /\ page_no = 2
    /\ Len(raw_candles) < batch_size
    /\ last_processed_time = batch_size * TimeStep
    /\ Uid \notin DOMAIN status_tbl

\* C11  (as claimed) calculate_indicators returns nothing when its input is
\* shorter than warm start index + window_size, and every record it returns
\* is for a candle with at least window_size candles before it in the input.
C11_NoPartialRows ==
    calc.op = "calculate" =>
        LET n == Len(calc.candles)
            w == calc.window_end_idx
        IN  /\ n < w + window_size => calc.result = <<>>
            /\ \A k \in 1..Len(calc.result) : w + k - 1 >= window_size

\* ------------------------------------------- the driver on a given history
\* window_size + 1 one-minute candles with strictly increasing closes
\* 1, 2, .. and constant volume 100 (the 51 candles of the example, scaled)
ExampleCandles == [i \in 1..(window_size + 1) |-> RawCandle("A", i, <<i, 0>>, 100)]

\* the source holds the example for A and no checkpoint exists
ExampleInit ==
    /\ PassInit
    /\ candles_tbl = [u \in Instruments |-> IF u = "A" THEN ExampleCandles ELSE <<>>]
    /\ calc = [op |-> "none"]
    /\ sched = [loop |-> "none"]

SpecExample == ExampleInit /\ [][Next]_vars

\* the first pass ended Ok without a failed round trip, over the example
ExamplePassDone ==
    /\ pc = "idle" /\ passes = 1 /\ pass_result = "ok" /\ faults = 0
    /\ candles_tbl["A"] = ExampleCandles

\* C12  (as claimed) One pass over the example writes exactly one indicator
\* row, the one of the last candle, with ma_cross = 0, rsi_14 = 100 and
\* volume_anomaly = 0, and leaves the checkpoint at that candle's time.
C12_ExampleOneRow ==
    ExamplePassDone =>
        /\ Len(RowsOf("A")) = 1
        /\ RowsOf("A")[1].time = ExampleCandles[window_size + 1].time
        /\ RowsOf("A")[1].ma_cross = 0
        /\ RatEq(RowsOf("A")[1].rsi_14, RatInt(100))
        /\ RowsOf("A")[1].volume_anomaly = 0
        /\ "A" \in DOMAIN status_tbl
        /\ status_tbl["A"] = ExampleCandles[window_size + 1].time

\* ------------------------------------------------------ insert_indicators
\* insert_indicators has returned for the current page
InsertReturned == pc = "update" /\ insert_result # "none"

\* the i-th write of the call is a multi-row write that failed
FailedMulti(i) == attempts[i].multi /\ attempts[i].result # "ok"

\* the writes of the call, from the i-th on, that touch row r of the input
TouchesAfter(i, r) ==
    {j \in (i + 1)..Len(attempts) : attempts[j].from <= r /\ r <= attempts[j].to}

\* C13  After a multi-row write failed with TOO_MANY_PARTS or
\* MEMORY_LIMIT_EXCEEDED the next writes are single-row retries of the rows of
\* that sub-batch, each once, in input order; a row whose retry failed is not
\* written again; and the call goes on with the next sub-batch, so that when
\* it returns Ok every sub-batch has had its multi-row write.
C13_RowRetryOnce ==
    /\ \A i \in 1..Len(attempts) :
          LET a == attempts[i]
              rows == a.to - a.from + 1
          IN  /\ (FailedMulti(i) /\ IsCapacityError(a.result)) =>
                    /\ \A k \in 1..rows :
                          i + k <= Len(attempts) =>
                              attempts[i + k] \in
                                  {Attempt(FALSE, a.from + k - 1, a.from + k - 1, res) :
                                      res \in {"ok"} \cup Errors}
                    /\ i + rows < Len(attempts) =>
                          /\ attempts[i + rows + 1].multi
                          /\ attempts[i + rows + 1].from = a.to + 1
                    /\ InsertReturned => i + rows <= Len(attempts)
              /\ ~a.multi =>
                    /\ TouchesAfter(i, a.from) = {}
                    /\ \E j \in 1..(i - 1) :
                          /\ FailedMulti(j) /\ IsCapacityError(attempts[j].result)
                          /\ attempts[j].from <= a.from /\ a.from <= attempts[j].to
    /\ (InsertReturned /\ insert_result = "ok") =>
          \A r \in 1..Len(indicators) :
              \E i \in 1..Len(attempts) :
                  attempts[i].multi /\ attempts[i].from <= r /\ r <= attempts[i].to

\* a call that returned Ok after a capacity failure of its first sub-batch,
\* a failed retry of one of its rows and the write of a later sub-batch
C13_Witness ==
    /\ InsertReturned /\ insert_result = "ok"
    /\ Len(attempts) > SUB_BATCH_SIZE + 1
    /\ FailedMulti(1) /\ IsCapacityError(attempts[1].result)
    /\ \E k \in 2..(SUB_BATCH_SIZE + 1) : attempts[k].result # "ok"
    /\ attempts[SUB_BATCH_SIZE + 2] = Attempt(TRUE, SUB_BATCH_SIZE + 1, Len(indicators), "ok")

\* the capacity-exhaustion class of store errors
CapacityClass == {"TOO_MANY_PARTS", "MEMORY_LIMIT_EXCEEDED"}

\* C14  A multi-row write that failed with an error other than
\* TOO_MANY_PARTS and MEMORY_LIMIT_EXCEEDED is the last write of the call:
\* insert_indicators returns Err with no single-row retry and no write of a
\* later sub-batch; and it returns Err only so.
C14_OtherErrorReturns ==
    /\ \A i \in 1..Len(attempts) :
          (FailedMulti(i) /\ attempts[i].result \notin CapacityClass) =>
              /\ i = Len(attempts)
              /\ InsertReturned
              /\ insert_result = "err"
    /\ insert_result = "err" =>
          /\ attempts # <<>>
          /\ FailedMulti(Len(attempts))
          /\ attempts[Len(attempts)].result \notin CapacityClass

\* the call returned Err at its first sub-batch with a later one unwritten
C14_Witness ==
    /\ InsertReturned /\ insert_result = "err"
    /\ Len(indicators) > SUB_BATCH_SIZE
    /\ attempts = <<Attempt(TRUE, 1, SUB_BATCH_SIZE, "OTHER")>>

\* C15  When every write of a call that failed, multi-row or single-row,
\* failed with TOO_MANY_PARTS or MEMORY_LIMIT_EXCEEDED, insert_indicators
\* has returned Ok.
C15_CapacityFailuresReturnOk ==
    (InsertReturned
        /\ \A i \in 1..Len(attempts) :
              attempts[i].result = "ok" \/ attempts[i].result \in CapacityClass) =>
        insert_result = "ok"

\* Ok after a multi-row write and a single-row retry that both failed with
\* MEMORY_LIMIT_EXCEEDED
C15_Witness ==
    /\ InsertReturned /\ insert_result = "ok"
    /\ \E i, j \in 1..Len(attempts) :
          /\ attempts[i].multi /\ attempts[i].result = "MEMORY_LIMIT_EXCEEDED"
          /\ ~attempts[j].multi /\ attempts[j].result = "MEMORY_LIMIT_EXCEEDED"

\* ------------------------------------------- insert_indicators called alone
\* the first n candles that arrive at the source for A
Arrived(n) == [i \in 1..n |-> RawCandle("A", i, ArrivingClose(i), ArrivingVolume(i))]

\* insert_indicators is called with the records the engine gives for the
\* candles of A and a warm start index, among them none at all
SinkInit ==
    /\ \E n \in 0..MaxCandles : \E w \in {0, window_size} :
        LET h == Arrived(n)
        IN
          /\ candles_tbl = [u \in Instruments |-> IF u = "A" THEN h ELSE <<>>]
          /\ indicators = IF w <= Len(h)
                          THEN calculate_indicators(ConvertAll(h), w)
                          ELSE <<>>
    /\ status_tbl = <<>>
    /\ indicators_tbl = <<>>
    /\ pc = "insert"
    /\ instrument_uids = <<"A">>
    /\ index = 1
    /\ last_processed_time = 0
    /\ processed_count = 0
    /\ total_processed = 0
    /\ raw_candles = <<>>
    /\ latest_time = 0
    /\ window_data = <<>>
    /\ batch_start = 0
    /\ row_idx = 0
    /\ successful_inserts = 0
    /\ passes = 1
    /\ pass_result = "running"
    /\ faults = 0
    /\ start_checkpoint = 0
    /\ page_no = 1
    /\ warmup_page = FALSE
    /\ insert_result = "none"
    /\ inserted = 0
    /\ attempts = <<>>
    /\ written_upto = [u \in Instruments |-> <<0, 0>>]
    /\ visited = {"A"}
    /\ failed_at = "none"
    /\ truncated = FALSE
    /\ calc = [op |-> "none"]
    /\ sched = [loop |-> "none"]

SinkNext == InsertBatch \/ InsertRow

SpecSink == SinkInit /\ [][SinkNext]_vars

\* the rows of the input covered by the writes of the call that succeeded
WrittenRows ==
    {r \in 1..Len(indicators) :
        \E i \in 1..Len(attempts) :
            /\ attempts[i].result = "ok"
            /\ attempts[i].from <= r /\ r <= attempts[i].to}

\* C16  When insert_indicators returns Ok(n), n is the number of input rows
\* whose multi-row or single-row write succeeded, and these are the rows the
\* destination got; n is at most the input length, and equal to it when no
\* write failed; for no input it is 0 and no write was sent.
C16_CountsWrittenRows ==
    (InsertReturned /\ insert_result = "ok") =>
        /\ inserted = Cardinality(WrittenRows)
        /\ Len(indicators_tbl) = inserted
        /\ inserted <= Len(indicators)
        /\ (\A i \in 1..Len(attempts) : attempts[i].result = "ok") =>
              inserted = Len(indicators)
        /\ indicators = <<>> => inserted = 0 /\ attempts = <<>>

\* Ok(n) with a dropped row: a single-row retry failed and n is one less
\* than the input length
C16_Witness ==
    /\ InsertReturned /\ insert_result = "ok"
    /\ \E i \in 1..Len(attempts) : ~attempts[i].multi /\ attempts[i].result # "ok"
    /\ inserted = Len(indicators) - 1

\* Ok(0) for no input
C16_WitnessEmpty ==
    InsertReturned /\ insert_result = "ok" /\ indicators = <<>> /\ attempts = <<>>

\* ---------------------------------------------------------------------
\* The scheduler (services/indicators/scheduler.rs) and the start-up code
\* that uses it (main.rs).  Time is a clock of whole units; a day has Day
\* of them, so the time of day of instant t is t % Day.

\* units in a day
Day == 3
\* updater_config.interval_seconds, in clock units
interval_seconds == 2
\* the clock stops here
MaxClock == 5
\* the chrono::Duration::days(7) of trigger_update, in clock units
Lookback == 2
\* clock units between the epoch and the instant the process starts
BootInstant == 4

\* now.timestamp(): the epoch second of instant t, a clock unit being as
\* long as the step between two candles
Timestamp(t) == (BootInstant + t) * TimeStep

\* Option<String> of start_time / end_time: None, a text "HH:MM:SS" that
\* names the time of day tod, or a text that is no time at all
NoTime == [some |-> FALSE, wellformed |-> FALSE, tod |-> 0]
TimeText(t) == [some |-> TRUE, wellformed |-> TRUE, tod |-> t]
BadText == [some |-> TRUE, wellformed |-> FALSE, tod |-> 0]
TimeOptions == {NoTime, BadText} \cup {TimeText(t) : t \in 0..(Day - 1)}

\* IndicatorsUpdaterConfig
Configs == [enabled : BOOLEAN, start_time : TimeOptions, end_time : TimeOptions]

\* chrono::NaiveTime::parse_from_str(text, "%H:%M:%S")
parse_from_str(text) == [ok |-> text.wellformed, time |-> text.tod]

\* chrono::Utc::now().time()
TimeOfDay(t) == t % Day

\* is_operation_allowed with `&&` for `||` in the window that wraps
is_operation_allowed_and(updater_config, now) ==
    IF ~updater_config.start_time.some \/ ~updater_config.end_time.some
    THEN TRUE
    ELSE LET start == parse_from_str(updater_config.start_time)
             end == parse_from_str(updater_config.end_time)
         IN  IF start.ok /\ end.ok
             THEN IF start.time <= end.time
                  THEN start.time <= now /\ now <= end.time
                  ELSE start.time <= now /\ now <= end.time
             ELSE TRUE

is_operation_allowed(updater_config, now) ==
    IF ~updater_config.start_time.some \/ ~updater_config.end_time.some
    THEN TRUE
    ELSE LET start == parse_from_str(updater_config.start_time)
             end == parse_from_str(updater_config.end_time)
         IN  IF start.ok /\ end.ok
             THEN IF start.time <= end.time
                  THEN start.time <= now /\ now <= end.time
                  ELSE start.time <= now \/ now <= end.time
             ELSE TRUE

\* tokio's time::interval is built with its default missed-tick behaviour
\* (Burst): the deadline of the next tick is one period after the deadline
\* of this one, however late this one completed
NextDeadline(deadline, now) == deadline + interval_seconds

\* the loop hands the pass to a task of its own and goes back to the timer
LoopAfterTriggerSpawned == "tick"

\* the loop awaits trigger_update before it asks the timer again
LoopAfterTrigger == "await"

\* the scheduler before anything has run.  main is the position in
\* initialize_background_services, loop the position of the task start
\* spawns, pass the position in trigger_update, caller who awaits the pass;
\* running counts the passes in flight and in_cycle the instrument cycles in
\* progress, order lists the instruments whose cycle began in this pass;
\* manual, timed and skipped count the passes begun by main, the passes
\* begun by a tick and the ticks that began none; tick_deadline is the
\* deadline of the tick that began the pass and last_end the instant the
\* pass before it ended
SchedBase(cfg) ==
    [config |-> cfg, main |-> "none", loop |-> "unstarted", caller |-> "none",
     now |-> 0, next_tick |-> 0,
     pass |-> "none", uids |-> <<>>, idx |-> 0, start_time |-> 0, end_time |-> 0,
     running |-> 0, in_cycle |-> 0, order |-> <<>>,
     manual |-> 0, timed |-> 0, skipped |-> 0,
     tick_deadline |-> 0, last_end |-> 0, result |-> "none"]

\* what no action of the scheduler touches
driver == <<stores, pc, locals, sink, passes, pass_result, history, calc>>

\* trigger_update is entered
BeginPass(s, who) ==
    [s EXCEPT !.pass = "uids", !.caller = who, !.running = @ + 1,
              !.uids = <<>>, !.idx = 0, !.order = <<>>, !.result = "running"]

\* trigger_update returns res to whoever awaits it
EndOfPass(s, res) ==
    [s EXCEPT !.pass = "none", !.caller = "none", !.running = @ - 1,
              !.uids = <<>>, !.idx = 0, !.result = res, !.last_end = s.now,
              !.loop = IF s.caller = "loop" THEN "tick" ELSE @,
              !.main = IF s.caller # "main" THEN @
                       ELSE IF @ = "initial" THEN "scheduled" ELSE "done"]

\* the for loop of trigger_update moves on
NextInstrument(s) ==
    IF s.idx < Len(s.uids)
    THEN [s EXCEPT !.idx = @ + 1, !.pass = "status"]
    ELSE EndOfPass(s, "ok")

\* start_time of trigger_update: the checkpoint of the status row, or for an
\* instrument without one the epoch second seven days before the pass began
StartTime(uid, end_time) ==
    IF uid \in DOMAIN status_tbl
    THEN status_tbl[uid]
    ELSE end_time - Lookback * TimeStep

\* start_time >= end_time: there is nothing new, the instrument is passed over
SkipsInstrument(uid, end_time) == StartTime(uid, end_time) >= end_time

\* start: returns at once when the updater is disabled, otherwise builds the
\* interval, whose first tick is due immediately, and spawns the loop
SchedStart ==
    /\ sched.loop = "unstarted"
    /\ sched.main = "none"
    /\ sched' = IF ~sched.config.enabled
                THEN [sched EXCEPT !.loop = "off"]
                ELSE [sched EXCEPT !.loop = "tick", !.next_tick = sched.now]
    /\ NoFault
    /\ UNCHANGED driver

\* one turn of the spawned loop: interval.tick() completes, the window is
\* asked, and trigger_update is entered or the turn ends
LoopTick ==
    /\ sched.loop = "tick"
    /\ sched.now >= sched.next_tick
    /\ LET ticked == [sched EXCEPT
                        !.next_tick = NextDeadline(sched.next_tick, sched.now)]
       IN  sched' = IF is_operation_allowed(sched.config, TimeOfDay(sched.now))
                    THEN [BeginPass(ticked, "loop") EXCEPT
                            !.loop = LoopAfterTrigger,
                            !.timed = @ + 1,
                            !.tick_deadline = sched.next_tick]
                    ELSE [ticked EXCEPT !.skipped = @ + 1]
    /\ NoFault
    /\ UNCHANGED driver

\* initialize_background_services awaits trigger_update, first for the
\* initial update and then once more where the scheduler is said to start
MainTrigger ==
    /\ sched.main \in {"initial", "scheduled"}
    /\ sched.pass = "none"
    /\ sched' = [BeginPass(sched, "main") EXCEPT !.manual = @ + 1]
    /\ NoFault
    /\ UNCHANGED driver

\* trigger_update: get_all_instrument_uids()?, Ok(0) for none, end_time
PassUids ==
    /\ sched.pass = "uids"
    /\ \/ /\ Fault
          /\ sched' = EndOfPass(sched, "err")
       \/ /\ NoFault
          /\ \E order \in UidOrders :
                sched' = IF order = <<>>
                         THEN EndOfPass(sched, "ok")
                         ELSE [sched EXCEPT !.uids = order, !.idx = 1,
                                            !.end_time = Timestamp(sched.now),
                                            !.pass = "status"]
    /\ UNCHANGED driver

\* trigger_update: get_status(uid)?, then the instrument is passed over or
\* its cycle begins
PassStatus ==
    /\ sched.pass = "status"
    /\ \/ /\ Fault
          /\ sched' = EndOfPass(sched, "err")
       \/ /\ NoFault
          /\ sched' = IF SkipsInstrument(sched.uids[sched.idx], sched.end_time)
                      THEN NextInstrument(sched)
                      ELSE [sched EXCEPT
                              !.pass = "cycle",
                              !.start_time = StartTime(sched.uids[sched.idx],
                                                       sched.end_time),
                              !.in_cycle = @ + 1,
                              !.order = Append(@, sched.uids[sched.idx])]
    /\ UNCHANGED driver

\* trigger_update: process_instrument returns, Ok or Err alike, and the
\* loop goes to the next instrument or the pass returns Ok
PassCycle ==
    /\ sched.pass = "cycle"
    /\ Fault \/ NoFault
    /\ sched' = NextInstrument([sched EXCEPT !.in_cycle = @ - 1])
    /\ UNCHANGED driver

\* time passes
ClockTick ==
    /\ sched.now < MaxClock
    /\ sched' = [sched EXCEPT !.now = @ + 1]
    /\ NoFault
    /\ UNCHANGED driver

\* both instruments have a candle and nothing has been processed yet
SchedStores ==
    /\ candles_tbl = [u \in Instruments |->
                        <<RawCandle(u, 1, ArrivingClose(1), ArrivingVolume(1))>>]
    /\ PassInit
    /\ calc = [op |-> "none"]

\* the scheduler as a component: start is called under any configuration
SchedInit ==
    /\ SchedStores
    /\ \E cfg \in Configs : sched = SchedBase(cfg)

SchedNext ==
    \/ SchedStart
    \/ LoopTick
    \/ PassUids
    \/ PassStatus
    \/ PassCycle
    \/ ClockTick

SpecSched == SchedInit /\ [][SchedNext]_vars

\* the process: main reaches initialize_background_services
MainInit ==
    /\ SchedStores
    /\ \E cfg \in Configs : sched = [SchedBase(cfg) EXCEPT !.main = "initial"]

MainNext ==
    \/ MainTrigger
    \/ PassUids
    \/ PassStatus
    \/ PassCycle
    \/ ClockTick

SpecMain == MainInit /\ [][MainNext]_vars

\* ---------------------------------------------------------------------
\* Properties of the scheduler

\* both bounds of the window are absent or name a time of day
WindowReadable(cfg) ==
    /\ cfg.start_time.some => cfg.start_time.wellformed
    /\ cfg.end_time.some => cfg.end_time.wellformed

\* the daily window as configured: open at time of day t
WindowOpen(cfg, t) ==
    \/ ~cfg.start_time.some
    \/ ~cfg.end_time.some
    \/ /\ cfg.start_time.tod <= cfg.end_time.tod
       /\ cfg.start_time.tod <= t
       /\ t <= cfg.end_time.tod
    \/ /\ cfg.start_time.tod > cfg.end_time.tod
       /\ (t >= cfg.start_time.tod \/ t <= cfg.end_time.tod)

\* a step in which a timer tick completes
TickCompletes == sched.loop = "tick" /\ sched'.next_tick # sched.next_tick

\* a step in which a tick begins a pass
TickBeginsPass == sched'.timed = sched.timed + 1

\* C17: a disabled updater never begins a pass on a tick, and with a window
\* whose bounds are absent or name times of day a tick begins a pass exactly
\* when the window is open at the current time of day: start <= now <= end
\* when start <= end, now >= start or now <= end when start > end, always
\* when a bound is absent
C17_TickRespectsWindow ==
    [][/\ TickBeginsPass => sched.config.enabled /\ TickCompletes
       /\ (TickCompletes /\ WindowReadable(sched.config))
            => (TickBeginsPass
                  <=> WindowOpen(sched.config, TimeOfDay(sched.now)))]_vars

\* a window that wraps past midnight has let one tick begin a pass and has
\* turned another away
C17_Witness ==
    /\ sched.config.start_time.some /\ sched.config.end_time.some
    /\ WindowReadable(sched.config)
    /\ sched.config.start_time.tod > sched.config.end_time.tod
    /\ sched.timed >= 1
    /\ sched.skipped >= 1

\* C18: never more than one pass in flight, never more than one instrument
\* cycle in progress, and the cycles of a pass begin in the order of the
\* enumeration, each after the one before it has ended
C18_OnePassOneInstrument ==
    /\ sched.running <= 1
    /\ sched.in_cycle <= 1
    /\ sched.pass = "cycle" => sched.in_cycle = 1 /\ Len(sched.order) = sched.idx
    /\ sched.pass # "cycle" => sched.in_cycle = 0
    /\ sched.pass # "none" =>
         /\ Len(sched.order) <= Len(sched.uids)
         /\ \A k \in 1..Len(sched.order) : sched.order[k] = sched.uids[k]

\* the second pass the timer began is in the cycle of its second instrument
C18_Witness ==
    /\ sched.timed >= 2
    /\ sched.running = 1
    /\ sched.pass = "cycle"
    /\ Len(sched.order) = 2

\* C19: a pass the timer begins is begun by a tick that fell due no earlier
\* than the end of the pass before it, so a tick that fell due while a pass
\* was running begins no pass
C19_NoCatchUpPass ==
    (sched.pass # "none" /\ sched.caller = "loop")
        => sched.tick_deadline >= sched.last_end

\* C20: when start-up is over, one pass has been run through the manual
\* trigger and the timer loop has been started
C20_OneManualPassThenLoop ==
    sched.main = "done" => sched.manual = 1 /\ sched.loop # "unstarted"

\* C21: the cycle of an instrument without a checkpoint row starts from time
\* 0, so every stored candle of the instrument lies after its start
C21_NoCheckpointStartsAtZero ==
    (sched.pass = "cycle" /\ sched.uids[sched.idx] \notin DOMAIN status_tbl) =>
        /\ sched.start_time = 0
        /\ \A i \in 1..Len(candles_tbl[sched.uids[sched.idx]]) :
              candles_tbl[sched.uids[sched.idx]][i].time > sched.start_time

\* C22: every step leaves the rows already in the indicator destination in
\* place and unchanged, and only adds rows after them
C22_DestinationAppendOnly ==
    [][/\ Len(indicators_tbl') >= Len(indicators_tbl)
       /\ SubSeq(indicators_tbl', 1, Len(indicators_tbl)) = indicators_tbl]_vars

\* ---------------------------------------------------------------------
\* Properties of the indicator values

\* the mean of the closes of the period candles that end at (1-based) index
\* j, and 0 when fewer than period candles end there
MeanCloseAt(candles, j, period) ==
    IF j < period
    THEN RatInt(0)
    ELSE <<SeqSum([n \in 1..period |-> candles[j - period + n].close_price]), period>>

\* C23: the record of the candle at index i carries +1 iff the averages at
\* i - 1 had fast <= slow and those at i have fast > slow, -1 iff they had
\* fast >= slow and have fast < slow, and 0 otherwise, the averages at
\* i - 1 being those of the warm-up candles at the first emitted index
C23_CrossoverFlag ==
    calc.op = "calculate" =>
        \A k \in 1..Len(calc.result) :
            LET i == calc.window_end_idx + k
                prev_fast == MeanCloseAt(calc.candles, i - 1, MaFastPeriod)
                prev_slow == MeanCloseAt(calc.candles, i - 1, MaSlowPeriod)
                fast == MeanCloseAt(calc.candles, i, MaFastPeriod)
                slow == MeanCloseAt(calc.candles, i, MaSlowPeriod)
                up == RatLe(prev_fast, prev_slow) /\ RatLt(slow, fast)
                down == RatLe(prev_slow, prev_fast) /\ RatLt(fast, slow)
            IN  /\ calc.result[k].ma_cross = 1 <=> up
                /\ calc.result[k].ma_cross = -1 <=> down
                /\ calc.result[k].ma_cross = 0 <=> (~up /\ ~down)

\* a warm start whose seeded averages have fast > slow: the first record
\* carries no crossover although fast > slow there too, and later records
\* carry a crossover down and a crossover up
C23_Witness ==
    /\ calc.op = "calculate"
    /\ calc.window_end_idx >= 1
    /\ Len(calc.result) >= 3
    /\ RatLt(MeanCloseAt(calc.candles, calc.window_end_idx, MaSlowPeriod),
             MeanCloseAt(calc.candles, calc.window_end_idx, MaFastPeriod))
    /\ RatLt(calc.result[1].ma_30, calc.result[1].ma_10)
    /\ calc.result[1].ma_cross = 0
    /\ \E k \in 2..Len(calc.result) : calc.result[k].ma_cross = -1
    /\ \E k \in 2..Len(calc.result) : calc.result[k].ma_cross = 1

\* length of the slices given to the engine for the forward label
LabelLen == 5
\* their closes as (units, nano): 0, and three prices 0.2 % and 0.4 % apart
LabelCloses == {<<0, 0>>, <<250, 0>>, <<250, 1>>, <<251, 0>>}

\* the engine is called over a slice of LabelLen candles with these closes
LabelInit ==
    /\ PassInit
    /\ \E closes \in [1..LabelLen -> LabelCloses] :
          candles_tbl = [u \in Instruments |->
                           IF u = "A"
                           THEN [i \in 1..LabelLen |-> RawCandle("A", i, closes[i], 1)]
                           ELSE <<>>]
    /\ calc = [op |-> "none"]
    /\ sched = [loop |-> "none"]

SpecLabel == LabelInit /\ [][CalcIndicators]_vars

\* C24: the record of the candle at index i carries the percentage change
\* from its close to the close of the candle FutureOffset places later in the
\* slice and the signal +1 above 0.2 %, -1 below -0.2 %, 0 between; both
\* are 0 when the close is 0 and for the last FutureOffset candles of the slice
C24_ForwardLabel ==
    calc.op = "calculate" =>
        \A k \in 1..Len(calc.result) :
            LET i == calc.window_end_idx + k
                r == calc.result[k]
                current == calc.candles[i].close_price
            IN  IF i + FutureOffset > Len(calc.candles) \/ current = 0
                THEN r.price_change_15m[1] = 0 /\ r.signal_15m = 0
                ELSE LET future == calc.candles[i + FutureOffset].close_price
                     IN  /\ RatEq(r.price_change_15m, <<(future - current) * 100, current>>)
                         /\ r.signal_15m = 1 <=> (future - current) * 500 > current
                         /\ r.signal_15m = -1 <=> (future - current) * 500 < -current
                         /\ r.signal_15m \in {-1, 0, 1}

\* one slice whose records show a change of exactly 0.2 % with signal 0, a
\* close of 0 before a later close that is not 0, and a signal that is not 0
C24_Witness ==
    /\ calc.op = "calculate"
    /\ calc.window_end_idx = 0
    /\ Len(calc.result) = LabelLen
    /\ \E k \in 1..(LabelLen - FutureOffset) :
          /\ RatEq(calc.result[k].price_change_15m, <<1, 5>>)
          /\ calc.result[k].signal_15m = 0
    /\ \E k \in 1..(LabelLen - FutureOffset) :
          /\ calc.candles[k].close_price = 0
          /\ calc.candles[k + FutureOffset].close_price > 0
    /\ \E k \in 1..(LabelLen - FutureOffset) : calc.result[k].signal_15m # 0

\* ---------------------------------------------------------------------
\* Several calls of the engine on one calculator

\* calls in one behaviour
MaxCalls == 3

\* the arguments of a call: the last candles but one or all of them, and
\* any warm start index
CallArgs ==
    {<<ConvertAll(Arrived(n)), w>> : n \in {MaxCandles - 1, MaxCandles}, w \in 0..MaxCandles}

\* order lists the calls made, each with its arguments and the records it
\* returned; retained is the rolling state the last call ended with, which
\* the call drops when it returns
CallsInit ==
    /\ PassInit
    /\ candles_tbl = [u \in Instruments |-> IF u = "A" THEN Arrived(MaxCandles) ELSE <<>>]
    /\ calc = [op |-> "calls", order |-> <<>>,
               retained |-> [prices_window |-> <<>>, rsi_gains |-> <<>>,
                             rsi_losses |-> <<>>,
                             volume_stats |-> VolumeStatisticsNew(VolumeWindow),
                             prev_ma_10 |-> RatInt(0), prev_ma_30 |-> RatInt(0),
                             result |-> <<>>]]
    /\ sched = [loop |-> "none"]

\* one call of calculate_indicators
CalcCall ==
    /\ calc.op = "calls"
    /\ Len(calc.order) < MaxCalls
    /\ \E args \in CallArgs :
         /\ args[2] <= Len(args[1])
         /\ LET candles == args[1]
                window_end_idx == args[2]
                done == MainLoop(SeededState(candles, window_end_idx), candles,
                                 window_end_idx + 1)
            IN  calc' = [calc EXCEPT
                           !.order = Append(@, [candles |-> candles,
                                                window_end_idx |-> window_end_idx,
                                                result |-> calculate_indicators(
                                                               candles, window_end_idx)]),
                           !.retained = IF Len(candles) <= window_size
                                        THEN @
                                        ELSE [done EXCEPT !.result = <<>>]]
    /\ UNCHANGED <<stores, pc, locals, sink, passes, pass_result, faults, history, sched>>

SpecCalls == CallsInit /\ [][CalcCall]_vars

LastOf(s, n) == IF Len(s) <= n THEN s ELSE SubSeq(s, Len(s) - n + 1, Len(s))

\* the closes, the volumes, and the gains and losses of the price changes of
\* the first j candles, in arrival order
ClosesTo(candles, j) == [i \in 1..j |-> candles[i].close_price]
VolumesTo(candles, j) == [i \in 1..j |-> candles[i].volume]
GainsTo(candles, j) ==
    [i \in 1..(j - 1) |->
        IF candles[i + 1].close_price >= candles[i].close_price
        THEN candles[i + 1].close_price - candles[i].close_price ELSE 0]
LossesTo(candles, j) ==
    [i \in 1..(j - 1) |->
        IF candles[i + 1].close_price >= candles[i].close_price
        THEN 0 ELSE candles[i].close_price - candles[i + 1].close_price]

\* C26: after every candle update the price buffer holds the last
\* window_size closes, the gain and loss buffers the last RsiPeriod gains and
\* losses, and the volume window the last VolumeWindow volumes, each in
\* arrival order; so none is over its capacity, gains and losses are equally
\* long, and what was evicted is the oldest entry
C26_BuffersBoundedFifo ==
    calc.op = "calculate" =>
        \A j \in 1..Len(calc.buffers) :
            LET b == calc.buffers[j]
            IN  /\ Len(b.prices_window) <= window_size
                /\ Len(b.rsi_gains) <= RsiPeriod
                /\ Len(b.rsi_gains) = Len(b.rsi_losses)
                /\ Len(b.volume_stats.volumes) <= VolumeWindow
                /\ b.prices_window = LastOf(ClosesTo(calc.candles, j), window_size)
                /\ b.rsi_gains = LastOf(GainsTo(calc.candles, j), RsiPeriod)
                /\ b.rsi_losses = LastOf(LossesTo(calc.candles, j), RsiPeriod)
                /\ b.volume_stats.volumes = LastOf(VolumesTo(calc.candles, j), VolumeWindow)

\* a call whose buffers were below capacity after the first update and have
\* each evicted a value that differs from the one that came in
C26_Witness ==
    /\ calc.op = "calculate"
    /\ calc.window_end_idx = window_size - 1
    /\ Len(calc.buffers) = MaxHist
    /\ Len(calc.buffers[1].prices_window) < window_size
    /\ calc.candles[1].close_price # calc.candles[1 + window_size].close_price
    /\ calc.candles[1].volume # calc.candles[1 + VolumeWindow].volume
    /\ calc.buffers[1 + RsiPeriod].rsi_gains # calc.buffers[2 + RsiPeriod].rsi_gains
    /\ calc.buffers[MaxHist].prices_window
            = LastOf(ClosesTo(calc.candles, MaxHist), window_size)

\* ---------------------------------------------------------------------
\* calculate_sma called alone

\* longest buffer and largest period given to calculate_sma
MaxSmaLen == 4
MaxSmaPeriod == 10
\* the buffers: every sequence of at most MaxSmaLen prices out of two, and
\* the prices 1, 2, 3, 4, 5
SmaPrices ==
    UNION {[1..n -> {1, 4}] : n \in 0..MaxSmaLen} \cup {[i \in 1..5 |-> i]}

SmaInit ==
    /\ PassInit
    /\ candles_tbl = [u \in Instruments |-> <<>>]
    /\ \E prices \in SmaPrices, period \in 0..MaxSmaPeriod :
          calc = [op |-> "sma_call", prices |-> prices, period |-> period]
    /\ sched = [loop |-> "none"]

CalcSma ==
    /\ calc.op = "sma_call"
    /\ calc' = [op |-> "sma", prices |-> calc.prices, period |-> calc.period,
                value |-> calculate_sma(calc.prices, calc.period)]
    /\ UNCHANGED <<stores, pc, locals, sink, passes, pass_result, faults, history, sched>>

SpecSma == SmaInit /\ [][CalcSma]_vars

\* C27: calculate_sma(prices, k) is 0 when k = 0 or fewer than k prices are
\* buffered, and otherwise the sum of the last k prices divided by k; over
\* 1, 2, 3, 4, 5 it is 4 for k = 3, and over five prices it is 0 for k = 10
C27_SmaOfLastK ==
    calc.op = "sma" =>
        /\ IF calc.period = 0 \/ Len(calc.prices) < calc.period
           THEN calc.value[1] = 0
           ELSE calc.value[1] * calc.period
                    = calc.value[2] * SeqSum(LastOf(calc.prices, calc.period))
        /\ calc.value[2] > 0
        /\ (calc.prices = <<1, 2, 3, 4, 5>> /\ calc.period = 3)
                => RatEq(calc.value, RatInt(4))
        /\ (Len(calc.prices) = 5 /\ calc.period = 10) => RatEq(calc.value, RatInt(0))

\* SMA(3) over 1, 2, 3, 4, 5 has been computed
C27_Witness ==
    /\ calc.op = "sma"
    /\ calc.prices = <<1, 2, 3, 4, 5>>
    /\ calc.period = 3
    /\ RatEq(calc.value, RatInt(4))

\* C28: the RSI of the record at index i is 50 when fewer than RsiPeriod
\* price changes precede it, 100 when the last RsiPeriod changes hold no
\* loss, and otherwise 100 - 100 / (1 + gain / loss) over those changes,
\* which is 100 * gain / (gain + loss); so it is 100 after RsiPeriod
\* strictly rising steps
C28_RsiValue ==
    calc.op = "calculate" =>
        \A k \in 1..Len(calc.result) :
            LET i == calc.window_end_idx + k
                gain == SeqSum(LastOf(GainsTo(calc.candles, i), RsiPeriod))
                loss == SeqSum(LastOf(LossesTo(calc.candles, i), RsiPeriod))
                rsi == calc.result[k].rsi_14
                rising == /\ i > RsiPeriod
                          /\ \A n \in (i - RsiPeriod)..(i - 1) :
                                calc.candles[n].close_price < calc.candles[n + 1].close_price
            IN  /\ rsi[2] > 0
                /\ IF i - 1 < RsiPeriod
                   THEN RatEq(rsi, RatInt(50))
                   ELSE IF loss = 0
                        THEN RatEq(rsi, RatInt(100))
                        ELSE RatEq(rsi, <<100 * gain, gain + loss>>)
                /\ rising => RatEq(rsi, RatInt(100))

\* one call whose first record has too few changes, a later one follows
\* RsiPeriod strictly rising steps, and another has gains and losses that
\* differ
C28_Witness ==
    /\ calc.op = "calculate"
    /\ calc.window_end_idx = 0
    /\ Len(calc.result) = LabelLen
    /\ RatEq(calc.result[1].rsi_14, RatInt(50))
    /\ \E k \in (RsiPeriod + 1)..LabelLen :
          /\ RatEq(calc.result[k].rsi_14, RatInt(100))
          /\ \A n \in (k - RsiPeriod)..(k - 1) :
                calc.candles[n].close_price < calc.candles[n + 1].close_price
    /\ \E k \in (RsiPeriod + 1)..LabelLen :
          /\ RatLt(RatInt(50), calc.result[k].rsi_14)
          /\ RatLt(calc.result[k].rsi_14, RatInt(100))

\* ---------------------------------------------------------------------
\* VolumeStatistics used alone

\* capacity of the statistics and most volumes added to it
VolStatCap == 6
MaxVolSeries == 7
\* the volumes added
VolumeVals == {1, 2, 6}

\* series lists the volumes added so far, zs the z-score of each at the
\* moment it was added and flags its anomaly flag
VolInit ==
    /\ PassInit
    /\ candles_tbl = [u \in Instruments |-> <<>>]
    /\ calc = [op |-> "volume", vs |-> VolumeStatisticsNew(VolStatCap),
               series |-> <<>>, zs |-> <<>>, flags |-> <<>>]
    /\ sched = [loop |-> "none"]

\* volume_stats.add(v), volume_stats.normalize(v) and the anomaly test, as
\* the main loop does for each candle
VolAdd ==
    /\ calc.op = "volume"
    /\ Len(calc.series) < MaxVolSeries
    /\ \E v \in VolumeVals :
         LET vs == VolumeAdd(calc.vs, v)
             z == VolumeNormalize(vs, v)
         IN  calc' = [calc EXCEPT !.vs = vs,
                                  !.series = Append(@, v),
                                  !.zs = Append(@, z),
                                  !.flags = Append(@, VolumeAnomaly(z))]
    /\ UNCHANGED <<stores, pc, locals, sink, passes, pass_result, faults, history, sched>>

SpecVolume == VolInit /\ [][VolAdd]_vars

SumSq(s) == SeqSum([i \in 1..Len(s) |-> s[i] * s[i]])

\* C29: the window holds the last VolStatCap volumes and the running sum and
\* sum of squares are theirs; the z-score of the volume just added is 0 with
\* fewer than 2 samples or a variance <= 0, and otherwise the volume minus the
\* mean over the square root of the variance with divisor n - 1; the flag is
\* 1 iff that z-score is above 2, and 0 at exactly 2
C29_VolumeZScore ==
    (calc.op = "volume" /\ calc.series # <<>>) =>
        LET window == LastOf(calc.series, VolStatCap)
            n == Len(window)
            S == SeqSum(window)
            Q == SumSq(window)
            v == calc.series[Len(calc.series)]
            z == calc.zs[Len(calc.zs)]
            flag == calc.flags[Len(calc.flags)]
        IN  /\ calc.vs.volumes = window
            /\ calc.vs.sum = S
            /\ calc.vs.sum_sq = Q
            /\ IF n < 2 \/ n * Q - S * S <= 0
               THEN z.dev[1] = 0 /\ flag = 0
               ELSE /\ RatEq(z.dev, <<n * v - S, n>>)
                    /\ RatEq(z.var, <<n * Q - S * S, n * (n - 1)>>)
                    /\ flag = 1 <=> /\ n * v - S > 0
                                    /\ (n * v - S) * (n * v - S) * (n - 1)
                                           > 4 * n * (n * Q - S * S)
                    /\ flag \in {0, 1}

\* the window has evicted a volume, and one of the volumes added had a
\* z-score of exactly 2 and the flag 0
C29_Witness ==
    /\ calc.op = "volume"
    /\ Len(calc.series) > VolStatCap
    /\ \E j \in 1..Len(calc.zs) :
          /\ calc.zs[j].dev[1] > 0
          /\ RatEq(RatMul(calc.zs[j].dev, calc.zs[j].dev), RatMul(RatInt(4), calc.zs[j].var))
          /\ calc.flags[j] = 0

\* ---------------------------------------------------------------------
\* More properties of insert_indicators

\* the multi-row writes of the call, in the order sent
MultiWrites == SelectSeq(attempts, LAMBDA a : a.multi)

\* C30: the k-th multi-row write of a call carries rows
\* (k - 1) * SUB_BATCH_SIZE + 1 .. k * SUB_BATCH_SIZE of the input, fewer in
\* the last one, so the sub-batches are consecutive and no row is in two;
\* a single-row retry follows the failed multi-row write of its own
\* sub-batch; and when the call returns Ok the sub-batches have covered
\* every input row
C30_SubBatchSplit ==
    /\ \A k \in 1..Len(MultiWrites) :
          /\ MultiWrites[k].from = (k - 1) * SUB_BATCH_SIZE + 1
          /\ MultiWrites[k].to = IF k * SUB_BATCH_SIZE < Len(indicators)
                                 THEN k * SUB_BATCH_SIZE ELSE Len(indicators)
          /\ MultiWrites[k].from <= MultiWrites[k].to
    /\ \A i \in 1..Len(attempts) :
          ~attempts[i].multi =>
              \E j \in 1..(i - 1) :
                  /\ attempts[j].multi
                  /\ attempts[j].result # "ok"
                  /\ attempts[j].from <= attempts[i].from
                  /\ attempts[i].to <= attempts[j].to
                  /\ \A m \in (j + 1)..i : ~attempts[m].multi
    /\ (InsertReturned /\ insert_result = "ok" /\ indicators # <<>>) =>
          /\ MultiWrites # <<>>
          /\ MultiWrites[Len(MultiWrites)].to = Len(indicators)

\* a call over 2 * SUB_BATCH_SIZE + 1 rows has returned Ok after three
\* multi-row writes, the last of one row, and single-row retries
C30_Witness ==
    /\ InsertReturned /\ insert_result = "ok"
    /\ Len(indicators) = 2 * SUB_BATCH_SIZE + 1
    /\ Len(MultiWrites) = 3
    /\ MultiWrites[3].from = MultiWrites[3].to
    /\ \E i \in 1..Len(attempts) : ~attempts[i].multi

\* ---------------------------------------------------------------------
\* The text insert_indicators sends for one record

\* the f64 fields of DbIndicator other than volume_norm
FloatFields == {"open_price", "high_price", "low_price", "close_price",
                "rsi_14", "ma_10", "ma_30", "ma_diff", "price_change_15m"}

\* a finite f64 and one that is not (NaN, +inf, -inf)
FloatVals == {<<1, 1>>, <<1, 0>>}
ZScoreVals == {[dev |-> <<1, 1>>, var |-> <<1, 1>>], [dev |-> <<1, 0>>, var |-> <<1, 1>>]}

\* every DbIndicator whose f64 fields are finite or not, here all of them
\* held as fractions
FormatInit ==
    /\ PassInit
    /\ candles_tbl = [u \in Instruments |-> <<>>]
    /\ \E floats \in [FloatFields -> FloatVals], z \in ZScoreVals :
          calc = [op |-> "record",
                  ind |-> [instrument_uid |-> "A", time |-> TimeStep,
                           open_price |-> floats["open_price"],
                           high_price |-> floats["high_price"],
                           low_price |-> floats["low_price"],
                           close_price |-> floats["close_price"],
                           volume |-> 1,
                           rsi_14 |-> floats["rsi_14"],
                           ma_10 |-> floats["ma_10"],
                           ma_30 |-> floats["ma_30"],
                           volume_norm |-> z,
                           ma_diff |-> floats["ma_diff"],
                           ma_cross |-> 0, rsi_zone |-> 0, volume_anomaly |-> 0,
                           hour_of_day |-> HourOfDay(TimeStep),
                           day_of_week |-> DayOfWeek(TimeStep),
                           price_change_15m |-> floats["price_change_15m"],
                           signal_15m |-> 0]]
    /\ sched = [loop |-> "none"]

\* the record goes out in a multi-row write
FormatMulti ==
    /\ calc.op = "record"
    /\ calc' = [op |-> "sent", multi |-> TRUE, ind |-> calc.ind,
                sent |-> SqlRows(<<calc.ind>>)[1]]
    /\ UNCHANGED <<stores, pc, locals, sink, passes, pass_result, faults, history, sched>>

\* the record goes out in a single-row retry
FormatRow ==
    /\ calc.op = "record"
    /\ calc' = [op |-> "sent", multi |-> FALSE, ind |-> calc.ind,
                sent |-> RowSql(calc.ind)]
    /\ UNCHANGED <<stores, pc, locals, sink, passes, pass_result, faults, history, sched>>

FormatNext == FormatMulti \/ FormatRow

SpecFormat == FormatInit /\ [][FormatNext]_vars

RowsAt(u, t) == SelectSeq(indicators_tbl, LAMBDA r : r.instrument_uid = u /\ r.time = t)

\* C32: after a pass that met no store error, every candle the checkpoint
\* has moved past and that has at least window_size earlier candles in the
\* source has exactly one indicator row
C32_EveryWarmCandleHasOneRow ==
    (pc = "idle" /\ pass_result = "ok" /\ faults = 0) =>
        \A u \in Instruments : \A i \in 1..Len(candles_tbl[u]) :
            (i > window_size /\ candles_tbl[u][i].time <= get_last_processed_time(u))
                => Len(RowsAt(u, candles_tbl[u][i].time)) = 1

\* ---------------------------------------------------------------------
\* A run of several pages: the source already holds more candles of one
\* instrument than one page and one window

\* the candle counts whose second page can be longer than the window
RunLengths == (batch_size + 1)..(batch_size + window_size + 1)

RunInit ==
    /\ PassInit
    /\ \E n \in RunLengths :
          candles_tbl = [u \in Instruments |->
                            IF u = "A"
                            THEN [i \in 1..n |-> RawCandle(u, i, ArrivingClose(i),
                                                          ArrivingVolume(i))]
                            ELSE <<>>]
    /\ calc = [op |-> "none"]
    /\ sched = [loop |-> "none"]

\* the steps of process_all_instruments over a source that does not grow
RunNext ==
    \/ GetAllInstrumentUids
    \/ IsStatusTableEmpty
    \/ truncate_indicators_table
    \/ GetLastProcessedTime
    \/ GetCandlesAfterTime
    \/ FetchHistoricalWindow
    \/ InsertBatch
    \/ InsertRow
    \/ UpdateLastProcessedTime
    \/ Stop

SpecRun == RunInit /\ [][RunNext]_vars

\* the candles of the current instrument up to the end of the current page
CandlesOfRun == SelectSeq(candles_tbl[Uid], LAMBDA c : c.time <= latest_time)

\* two z-scores dev / sqrt(var) of the same value
SameZScore(a, b) ==
    /\ RatLt(a.dev, RatInt(0)) = RatLt(b.dev, RatInt(0))
    /\ RatEq(RatMul(RatMul(a.dev, a.dev), b.var), RatMul(RatMul(b.dev, b.dev), a.var))

\* two records of one candle with the same averages, RSI and z-score
SameRolling(r, w) ==
    /\ r.time = w.time
    /\ RatEq(r.ma_10, w.ma_10)
    /\ RatEq(r.ma_30, w.ma_30)
    /\ RatEq(r.rsi_14, w.rsi_14)
    /\ SameZScore(r.volume_norm, w.volume_norm)

\* C33: in a run that began at checkpoint 0 and met no failure, the records
\* of every page after the first carry the moving averages, RSI and volume
\* z-score of a single engine call over all the pages fetched so far
C33_LaterPagesContinueRollingState ==
    (pc = "insert" /\ page_no >= 2 /\ start_checkpoint = 0 /\ faults = 0) =>
        LET whole == calculate_indicators(ConvertAll(CandlesOfRun), 0)
            skip == Len(whole) - Len(indicators)
        IN  \A j \in 1..Len(indicators) :
                SameRolling(indicators[j], whole[skip + j])

\* ---------------------------------------------------------------------
\* Passes in which every sink write and every checkpoint update succeeds
\* and the process is never stopped; the other round trips may fail

InsertBatchOk == InsertBatch /\ NoFault

UpdateLastProcessedTimeOk == UpdateLastProcessedTime /\ NoFault

CleanNext ==
    \/ GetAllInstrumentUids
    \/ IsStatusTableEmpty
    \/ truncate_indicators_table
    \/ GetLastProcessedTime
    \/ GetCandlesAfterTime
    \/ FetchHistoricalWindow
    \/ InsertBatchOk
    \/ UpdateLastProcessedTimeOk
    \/ NewCandle

SpecClean == Init /\ [][CleanNext]_vars

\* C34: while every sink write and checkpoint update succeeds and no pass
\* is stopped, no two indicator rows carry the same instrument and candle
\* time, and no written row is ever deleted to be written again
C34_NoRowWrittenTwice ==
    /\ \A i, j \in 1..Len(indicators_tbl) :
          (/\ indicators_tbl[i].instrument_uid = indicators_tbl[j].instrument_uid
           /\ indicators_tbl[i].time = indicators_tbl[j].time) => i = j
    /\ pc = "truncate" => indicators_tbl = <<>>

\* a second pass has written a page computed behind a warm-up window, after
\* the rows of the first pass
C34_Witness ==
    /\ passes = 2
    /\ pc = "update"
    /\ warmup_page
    /\ insert_result = "ok"
    /\ window_data # <<>>
    /\ Len(indicators_tbl) > Len(indicators)

\* C35: a record carries a crossover only when the slow average, and with
\* it the fast one, is an average of buffered closes both before and after
\* its candle: at least MaSlowPeriod closes precede the candle in the call
C35_CrossoverNeedsDefinedAverages ==
    calc.op = "calculate" =>
        \A k \in 1..Len(calc.result) :
            calc.result[k].ma_cross # 0 => calc.window_end_idx + k - 1 >= MaSlowPeriod

\* the single-row writes of the call that failed outside the capacity class
OtherRowFailure(i) ==
    /\ ~attempts[i].multi
    /\ attempts[i].result \notin CapacityClass \cup {"ok"}

\* C36: a single-row retry that fails with an error outside the capacity
\* class does not end the call: its row is not written, the call does not
\* return Err on it, the next write sent is that of the next row, and unless
\* a later multi-row write fails outside the capacity class the call reaches
\* the last row and returns Ok with a count that leaves the row out
C36_RowFailureDropsRowOnly ==
    \A i \in 1..Len(attempts) :
        OtherRowFailure(i) =>
            /\ attempts[i].from \notin WrittenRows
            /\ \A r \in 1..Len(indicators_tbl) :
                  indicators_tbl[r].time # indicators[attempts[i].from].time
            /\ i < Len(attempts) => attempts[i + 1].from = attempts[i].to + 1
            /\ i = Len(attempts) =>
                  /\ insert_result # "err"
                  /\ attempts[i].to < Len(indicators) => ~InsertReturned
            /\ (InsertReturned /\ \A j \in 1..Len(attempts) :
                                    FailedMulti(j) => attempts[j].result \in CapacityClass) =>
                  /\ insert_result = "ok"
                  /\ inserted = Cardinality(WrittenRows)
                  /\ inserted < Len(indicators)

\* the call returned Ok after a single-row write of its first sub-batch
\* failed with an error outside the capacity class and a later sub-batch
\* was written
C36_Witness ==
    /\ InsertReturned /\ insert_result = "ok"
    /\ \E i \in 1..Len(attempts) :
          /\ OtherRowFailure(i)
          /\ attempts[i].to <= SUB_BATCH_SIZE
          /\ \E j \in (i + 1)..Len(attempts) :
                attempts[j].multi /\ attempts[j].result = "ok"

\* C37: when insert_indicators returns Err, no write of the call has
\* succeeded and the destination holds no row of its input
C37_ErrWritesNothing ==
    (InsertReturned /\ insert_result = "err") =>
        /\ WrittenRows = {}
        /\ \A r \in 1..Len(indicators_tbl) : \A k \in 1..Len(indicators) :
              indicators_tbl[r].time # indicators[k].time

\* ---------------------------------------------------------------------
\* Truncation of the indicator table

\* the step in which truncate_indicators_table succeeds
TruncateStep == pc = "truncate" /\ pc' = "read_ckpt"

\* the step in which the checkpoint of the current instrument is read
ReadStep == pc = "read_ckpt" /\ pc' = "fetch"

\* C38: the indicator table is truncated only before the first instrument of
\* a pass and with no row at all in the checkpoint table, rows leave the
\* table in no other step, and in a pass that truncated every instrument
\* reads the resume point 0
C38_TruncateOnlyOnEmptyCheckpoints ==
    [][/\ TruncateStep =>
            /\ DOMAIN status_tbl = {}
            /\ pass_result = "running"
            /\ index = 0 /\ visited = {} /\ page_no = 0
       /\ Len(indicators_tbl') < Len(indicators_tbl) => TruncateStep
       /\ (ReadStep /\ truncated) =>
            /\ Uid \notin DOMAIN status_tbl
            /\ last_processed_time' = 0
            /\ start_checkpoint' = 0]_vars

\* in a pass that truncated the table, the second instrument has read its
\* resume point after the checkpoint of the first one was stored
C38_Witness ==
    /\ truncated
    /\ pc = "fetch"
    /\ index = 2
    /\ start_checkpoint = 0
    /\ DOMAIN status_tbl # {}
    /\ indicators_tbl # <<>>

====
